---------------------------- MODULE Spec2Model ----------------------------
(***************************************************************************)
(* A model of pycolorecho (src/pycolorecho/__main__.py): the colour-format *)
(* codec, the named registries, the ColorMapper rule table and the three   *)
(* colorization modes.                                                     *)
(*                                                                         *)
(* A Python str is a sequence of characters; a character is a one-letter   *)
(* TLA+ string, except the escape character (written "ESC") and the        *)
(* fullwidth letters (written "FW_A", "FW_a", ...).  An Optional value is  *)
(* None (the empty sequence) or Some(v) (the one-element sequence).  A     *)
(* call returns a record [exc, val]: exc is "none" or the name of the      *)
(* exception raised, val the returned value.                               *)
(***************************************************************************)
EXTENDS Integers, Sequences, FiniteSets, TLC

VARIABLES
    mappings,        \* ColorMapper._mappings, in dict (insertion) order
    recent,          \* history: upper-cased name -> last rule added and not removed since
    tc_standard,     \* TextColor._standard_colors
    tc_true,         \* TextColor._true_colors
    bg_standard,     \* TextBackgroundColor._standard_colors
    bg_true,         \* TextBackgroundColor._true_colors
    effects,         \* TextEffect._effects
    true_color_ok,   \* what _is_true_color_supported() reports on this terminal
    request,         \* the call the caller is about to make on a pure function
    last             \* the last call: its name, its arguments and its outcome

vars == <<mappings, recent, tc_standard, tc_true, bg_standard, bg_true,
          effects, true_color_ok, request, last>>

---------------------------------------------------------------------------
(* Bounds of the model. *)

\* Longest message given to plain and single-pattern mode, in characters.
MaxLen == 3

\* Longest message given to rule-table mode, in characters.
MaxMessage == 2

\* Number of distinct hexadecimal digits the HEX codes given to the codec
\* are written with.
MaxHexDigits == 3

\* Longest parameter body of the ANSI strings given to the codec directly.
MaxBody == 3

---------------------------------------------------------------------------
(* Values and outcomes. *)

None == <<>>

Some(v) == <<v>>

Ok(v) == [exc |-> "none", val |-> v]

Raise(e) == [exc |-> e, val |-> <<>>]

\* All sequences over S of length 0..n.
SeqUpTo(S, n) == UNION {[1..k -> S] : k \in 0..n}

---------------------------------------------------------------------------
(* Characters. *)

ESC == "ESC"

Digits == <<"0", "1", "2", "3", "4", "5", "6", "7", "8", "9">>

Lowers == <<"a", "b", "c", "d", "e", "f", "g", "h", "i", "j", "k", "l", "m",
            "n", "o", "p", "q", "r", "s", "t", "u", "v", "w", "x", "y", "z">>

Uppers == <<"A", "B", "C", "D", "E", "F", "G", "H", "I", "J", "K", "L", "M",
            "N", "O", "P", "Q", "R", "S", "T", "U", "V", "W", "X", "Y", "Z">>

\* U+FF21..U+FF3A and U+FF41..U+FF5A.
FWUppers == [i \in 1..26 |-> "FW_" \o Uppers[i]]

FWLowers == [i \in 1..26 |-> "FW_" \o Lowers[i]]

\* The characters of the model in code point order.
CodePoints == <<ESC, "\n", " ", "#", "-", ".">> \o Digits \o <<";", "@">> \o Uppers
              \o <<"[", "_">> \o Lowers \o FWUppers \o FWLowers

Range(s) == {s[i] : i \in 1..Len(s)}

Chars == Range(CodePoints)

IndexOf(s, c) == CHOOSE i \in 1..Len(s) : s[i] = c

\* ord(c), up to an order-preserving renumbering.
OrdOf == [c \in Chars |-> IndexOf(CodePoints, c)]

\* str.upper() and str.lower() of one character.
UpperOf == [c \in Chars |->
              IF c \in Range(Lowers) THEN Uppers[IndexOf(Lowers, c)]
              ELSE IF c \in Range(FWLowers) THEN FWUppers[IndexOf(FWLowers, c)]
              ELSE c]

LowerOf == [c \in Chars |->
              IF c \in Range(Uppers) THEN Lowers[IndexOf(Uppers, c)]
              ELSE IF c \in Range(FWUppers) THEN FWLowers[IndexOf(FWUppers, c)]
              ELSE c]

\* A cased character (a letter with an upper and a lower form).
IsCased(c) == UpperOf[c] # LowerOf[c]

\* [a-zA-Z0-9] and [a-zA-Z0-9_] of the case transformer's patterns.
Alnum == Range(Lowers) \cup Range(Uppers) \cup Range(Digits)

Word == Alnum \cup {"_"}

\* str.upper(), str.lower().
Upper(s) == [i \in 1..Len(s) |-> UpperOf[s[i]]]

Lower(s) == [i \in 1..Len(s) |-> LowerOf[s[i]]]

\* The concatenation of a sequence of strings, with a separator.
RECURSIVE Join(_, _)
Join(sep, words) ==
    IF words = <<>> THEN <<>>
    ELSE IF Len(words) = 1 THEN words[1]
    ELSE words[1] \o sep \o Join(sep, Tail(words))

---------------------------------------------------------------------------
(* Validate and Color: the colour-format codec.  A float is modelled by the *)
(* exact fraction [n, d] it rounds.                                         *)

\* Layer.Foreground.value and Layer.Background.value.
Foreground == 38

Background == 48

HexDigits == Digits \o <<"A", "B", "C", "D", "E", "F">>

IsDigits(s) == s # <<>> /\ \A i \in 1..Len(s) : s[i] \in Range(Digits)

\* str.rstrip('m').
RECURSIVE RStripM(_)
RStripM(s) ==
    IF s # <<>> /\ s[Len(s)] = "m" THEN RStripM(SubSeq(s, 1, Len(s) - 1)) ELSE s

\* str.startswith(prefix).
StartsWith(s, prefix) ==
    Len(s) >= Len(prefix) /\ SubSeq(s, 1, Len(prefix)) = prefix

\* str.split(';').
Split(s) ==
    LET cuts == {i \in 1..Len(s) : s[i] = ";"}
        bounds == {0} \cup cuts \cup {Len(s) + 1}
        nth(n) == CHOOSE i \in bounds : Cardinality({j \in bounds : j < i}) = n - 1
    IN  [n \in 1..(Cardinality(cuts) + 1) |-> SubSeq(s, nth(n) + 1, nth(n + 1) - 1)]

\* The value of a string of decimal digits.
RECURSIVE DecValue(_)
DecValue(s) ==
    IF s = <<>> THEN 0
    ELSE 10 * DecValue(SubSeq(s, 1, Len(s) - 1)) + (IndexOf(Digits, s[Len(s)]) - 1)

\* int(s) for a piece of an ANSI parameter body.
ParseInt(s) == IF IsDigits(s) THEN Ok(DecValue(s)) ELSE Raise("ValueError")

\* int(s, 16) for two hexadecimal digits of either case.
HexValue(s) ==
    16 * (IndexOf(HexDigits, UpperOf[s[1]]) - 1) + (IndexOf(HexDigits, UpperOf[s[2]]) - 1)

\* f'{n}' for an int n >= 0.
RECURSIVE Dec(_)
Dec(n) == IF n < 10 THEN <<Digits[n + 1]>> ELSE Dec(n \div 10) \o <<Digits[(n % 10) + 1]>>

\* f'{n:02x}'.upper() for 0 <= n <= 255.
Hex2(n) == <<HexDigits[(n \div 16) + 1], HexDigits[(n % 16) + 1]>>

\* Validate.validate_hex: re.match(r'#[0-9a-fA-F]{6}$', hex_code.upper());
\* '$' also matches before a newline that ends the string.
validate_hex(hex_code) ==
    LET u == Upper(hex_code)
    IN  IF /\ Len(u) \in {7, 8}
           /\ u[1] = "#"
           /\ \A i \in 2..7 : u[i] \in Range(HexDigits)
           /\ (Len(u) = 8 => u[8] = "\n")
        THEN Ok(TRUE)
        ELSE Raise("ValueError")

\* Validate.validate_rgb.
validate_rgb(r, g, b) ==
    IF \A x \in {r, g, b} : 0 <= x /\ x <= 255 THEN Ok(TRUE) ELSE Raise("ValueError")

\* Validate.validate_ansi.
validate_ansi(ansi) ==
    LET n == IF ansi # <<>> /\ ansi[Len(ansi)] = "\n" THEN Len(ansi) - 1 ELSE Len(ansi)
        code == RStripM(SubSeq(ansi, 3, Len(ansi)))
    IN  IF ~(/\ n >= 4
             /\ ansi[1] = ESC
             /\ ansi[2] = "["
             /\ \A i \in 3..(n - 1) : ansi[i] \in Range(Digits) \cup {";"}
             /\ ansi[n] = "m")
        THEN Raise("ValueError")
        ELSE IF /\ ~StartsWith(code, <<"3", "8", ";", "2", ";">>)
                /\ ~StartsWith(code, <<"4", "8", ";", "2", ";">>)
                /\ ~IsDigits(code)
        THEN Raise("ValueError")
        ELSE Ok(TRUE)

\* Color.hex_to_rgb.
hex_to_rgb(hex_code) ==
    IF validate_hex(hex_code).exc # "none" THEN validate_hex(hex_code)
    ELSE Ok(<<HexValue(SubSeq(hex_code, 2, 3)),
              HexValue(SubSeq(hex_code, 4, 5)),
              HexValue(SubSeq(hex_code, 6, 7))>>)

\* An rgb_to_hex that formats with {r:x}: no zero padding.
rgb_to_hex_unpadded(r, g, b) ==
    LET digits(n) == IF n < 16 THEN <<HexDigits[n + 1]>> ELSE Hex2(n)
    IN  IF validate_rgb(r, g, b).exc # "none" THEN validate_rgb(r, g, b)
        ELSE Ok(<<"#">> \o digits(r) \o digits(g) \o digits(b))

\* Color.rgb_to_hex.
rgb_to_hex(r, g, b) ==
    IF validate_rgb(r, g, b).exc # "none" THEN validate_rgb(r, g, b)
    ELSE Ok(<<"#">> \o Hex2(r) \o Hex2(g) \o Hex2(b))

\* The steps of rgb_to_cmyk after its special case, in 255ths: c = 1 - r/255
\* is (255 - r)/255, k = min(c, m, y), and (c - k) / (1 - k) is
\* (c - k)/(255 - k) in 255ths, a ZeroDivisionError when k is 1.
CmykSteps(r, g, b) ==
    LET c == 255 - r
        m == 255 - g
        y == 255 - b
        k == CHOOSE x \in {c, m, y} : \A z \in {c, m, y} : x <= z
    IN  IF 255 - k = 0 THEN Raise("ZeroDivisionError")
        ELSE Ok(<<[n |-> c - k, d |-> 255 - k], [n |-> m - k, d |-> 255 - k],
                  [n |-> y - k, d |-> 255 - k], [n |-> k, d |-> 255]>>)

\* An rgb_to_cmyk without the special case for (0, 0, 0).
rgb_to_cmyk_no_special_case(r, g, b) ==
    IF validate_rgb(r, g, b).exc # "none" THEN validate_rgb(r, g, b)
    ELSE CmykSteps(r, g, b)

\* Color.rgb_to_cmyk.
rgb_to_cmyk(r, g, b) ==
    IF validate_rgb(r, g, b).exc # "none" THEN validate_rgb(r, g, b)
    ELSE IF <<r, g, b>> = <<0, 0, 0>>
    THEN Ok(<<[n |-> 0, d |-> 1], [n |-> 0, d |-> 1], [n |-> 0, d |-> 1],
              [n |-> 1, d |-> 1]>>)
    ELSE CmykSteps(r, g, b)

\* The true-colour code f'\033[{layer.value};2;{r};{g};{b}m'.
TrueColorCode(layer, r, g, b) ==
    <<ESC, "[">> \o Dec(layer) \o <<";", "2", ";">> \o Dec(r) \o <<";">>
    \o Dec(g) \o <<";">> \o Dec(b) \o <<"m">>

\* The 16 swatches of Color._closest_standard_color as (r, g, b).
standard_colors ==
    <<<<0, 0, 0>>, <<128, 0, 0>>, <<0, 128, 0>>, <<128, 128, 0>>,
      <<0, 0, 128>>, <<128, 0, 128>>, <<0, 128, 128>>, <<192, 192, 192>>,
      <<128, 128, 128>>, <<255, 0, 0>>, <<0, 255, 0>>, <<255, 255, 0>>,
      <<0, 0, 255>>, <<255, 0, 255>>, <<0, 255, 255>>, <<255, 255, 255>>>>

Abs(x) == IF x < 0 THEN -x ELSE x

\* Color._hex_distance between two (r, g, b).
_hex_distance(c1, c2) ==
    Abs(c1[1] - c2[1]) + Abs(c1[2] - c2[2]) + Abs(c1[3] - c2[3])

\* A _closest_standard_color that keeps the last of equal minima.
_closest_standard_color_last_of_equal(rgb) ==
    LET closest == CHOOSE i \in 1..16 :
                       /\ \A j \in 1..16 : _hex_distance(rgb, standard_colors[i])
                                           <= _hex_distance(rgb, standard_colors[j])
                       /\ \A j \in (i + 1)..16 : _hex_distance(rgb, standard_colors[j])
                                                 > _hex_distance(rgb, standard_colors[i])
    IN  (closest - 1) + 44

\* Color._closest_standard_color: min() keeps the first of equal minima.
_closest_standard_color(rgb) ==
    LET closest == CHOOSE i \in 1..16 :
                       /\ \A j \in 1..16 : _hex_distance(rgb, standard_colors[i])
                                           <= _hex_distance(rgb, standard_colors[j])
                       /\ \A j \in 1..(i - 1) : _hex_distance(rgb, standard_colors[j])
                                                > _hex_distance(rgb, standard_colors[i])
    IN  (closest - 1) + 44

\* A hex_to_ansi whose true-colour code lists the components blue first.
hex_to_ansi_blue_first(hex_code, layer, true_color) ==
    IF validate_hex(hex_code).exc # "none" THEN validate_hex(hex_code)
    ELSE LET rgb == hex_to_rgb(hex_code).val
         IN  IF true_color THEN Ok(TrueColorCode(layer, rgb[3], rgb[2], rgb[1]))
             ELSE IF Len(hex_code) # 7 THEN Raise("ValueError")
             ELSE Ok(<<ESC, "[">> \o Dec(_closest_standard_color(rgb) + layer)
                     \o <<"m">>)

\* Color.hex_to_ansi.  With true_color False the code strips '#' and hands
\* the rest to _hex_distance, which refuses anything but 6 characters.
hex_to_ansi(hex_code, layer, true_color) ==
    IF validate_hex(hex_code).exc # "none" THEN validate_hex(hex_code)
    ELSE LET rgb == hex_to_rgb(hex_code).val
         IN  IF true_color THEN Ok(TrueColorCode(layer, rgb[1], rgb[2], rgb[3]))
             ELSE IF Len(hex_code) # 7 THEN Raise("ValueError")
             ELSE Ok(<<ESC, "[">> \o Dec(_closest_standard_color(rgb) + layer)
                     \o <<"m">>)

\* Validate.validate_cmyk on four fractions [n, d] with d > 0:
\* 0.0 <= x <= 1.0 for each.
validate_cmyk(c, m, y, k) ==
    IF \A x \in {c, m, y, k} : 0 <= x.n /\ x.n <= x.d THEN Ok(TRUE)
    ELSE Raise("ValueError")

\* int(255 * (1 - x) * (1 - k)) for fractions x and k in [0, 1].
Channel(x, k) == (255 * (x.d - x.n) * (k.d - k.n)) \div (x.d * k.d)

\* Color.cmyk_to_rgb.
cmyk_to_rgb(c, m, y, k) ==
    IF validate_cmyk(c, m, y, k).exc # "none" THEN validate_cmyk(c, m, y, k)
    ELSE Ok(<<Channel(c, k), Channel(m, k), Channel(y, k)>>)

\* The standard-colour code of (r, g, b) on a layer, as rgb_to_ansi and
\* cmyk_to_ansi compute it: rgb_to_hex, lstrip('#'), _closest_standard_color.
StandardCode(r, g, b, layer) ==
    LET hex_code == rgb_to_hex(r, g, b).val
        closest_color_code == _closest_standard_color(hex_to_rgb(hex_code).val)
    IN  <<ESC, "[">> \o Dec(closest_color_code + layer) \o <<"m">>

\* An rgb_to_ansi whose standard-colour code is always that of the
\* Foreground layer.
rgb_to_ansi_foreground_only(r, g, b, layer, true_color) ==
    IF validate_rgb(r, g, b).exc # "none" THEN validate_rgb(r, g, b)
    ELSE IF true_color THEN Ok(TrueColorCode(layer, r, g, b))
    ELSE Ok(StandardCode(r, g, b, Foreground))

\* Color.rgb_to_ansi.
rgb_to_ansi(r, g, b, layer, true_color) ==
    IF validate_rgb(r, g, b).exc # "none" THEN validate_rgb(r, g, b)
    ELSE IF true_color THEN Ok(TrueColorCode(layer, r, g, b))
    ELSE Ok(StandardCode(r, g, b, layer))

\* Color.cmyk_to_ansi.
cmyk_to_ansi(c, m, y, k, layer, true_color) ==
    IF validate_cmyk(c, m, y, k).exc # "none" THEN validate_cmyk(c, m, y, k)
    ELSE LET rgb == cmyk_to_rgb(c, m, y, k).val
         IN  IF true_color THEN rgb_to_ansi(rgb[1], rgb[2], rgb[3], layer, true_color)
             ELSE Ok(StandardCode(rgb[1], rgb[2], rgb[3], layer))

\* r, g, b = map(int, code.split(';')): three ints or a ValueError.
ParseTriple(code) ==
    LET parts == Split(code)
    IN  IF \E i \in 1..Len(parts) : ParseInt(parts[i]).exc # "none"
        THEN Raise("ValueError")
        ELSE IF Len(parts) # 3 THEN Raise("ValueError")
        ELSE Ok(<<ParseInt(parts[1]).val, ParseInt(parts[2]).val,
                  ParseInt(parts[3]).val>>)

IsTrueColorCode(ansi) ==
    \/ StartsWith(ansi, <<ESC, "[", "3", "8", ";", "2", ";">>)
    \/ StartsWith(ansi, <<ESC, "[", "4", "8", ";", "2", ";">>)

\* An ansi_to_rgb that answers a standard-colour code with black instead
\* of refusing it.
ansi_to_rgb_approximating(ansi) ==
    IF validate_ansi(ansi).exc # "none" THEN validate_ansi(ansi)
    ELSE IF IsTrueColorCode(ansi)
    THEN ParseTriple(RStripM(SubSeq(ansi, 8, Len(ansi))))
    ELSE Ok(<<0, 0, 0>>)

\* Color.ansi_to_rgb.
ansi_to_rgb(ansi) ==
    IF validate_ansi(ansi).exc # "none" THEN validate_ansi(ansi)
    ELSE IF IsTrueColorCode(ansi)
    THEN ParseTriple(RStripM(SubSeq(ansi, 8, Len(ansi))))
    ELSE Raise("Warning")

\* Color.ansi_to_hex.
ansi_to_hex(ansi) ==
    IF validate_ansi(ansi).exc # "none" THEN validate_ansi(ansi)
    ELSE IF IsTrueColorCode(ansi)
    THEN LET rgb == ParseTriple(RStripM(SubSeq(ansi, 8, Len(ansi))))
         IN  IF rgb.exc # "none" THEN rgb
             ELSE rgb_to_hex(rgb.val[1], rgb.val[2], rgb.val[3])
    ELSE Raise("Warning")

\* Color.ansi_to_cmyk.
ansi_to_cmyk(ansi) ==
    LET rgb == ansi_to_rgb(ansi)
    IN  IF rgb.exc = "Warning" THEN Raise("Warning")
        ELSE IF rgb.exc # "none" THEN rgb
        ELSE rgb_to_cmyk(rgb.val[1], rgb.val[2], rgb.val[3])

---------------------------------------------------------------------------
(* TextCase: the ten case transforms. *)

NONE == 0

NO_CAPS == 10

ALL_CAPS == 20

SMALL_CAPS == 30

TITLE_CASE == 40

SENTENCE_CASE == 50

PASCAL_CASE == 60

CAMEL_CASE == 70

SNAKE_CASE == 80

KEBAB_CASE == 90

\* str.capitalize(): the first character upper-cased, the others lower-cased.
Capitalize(s) ==
    [i \in 1..Len(s) |-> IF i = 1 THEN UpperOf[s[i]] ELSE LowerOf[s[i]]]

\* str.title(): a cased character is upper-cased when the character before
\* it is not cased, and lower-cased otherwise.
Title(s) ==
    [i \in 1..Len(s) |->
        IF i > 1 /\ IsCased(s[i - 1]) THEN LowerOf[s[i]] ELSE UpperOf[s[i]]]

\* re.sub(r'[^...]+', ' ', message).split(): the maximal runs of characters
\* of the class keep, in order.
Runs(s, keep) ==
    LET starts == {i \in 1..Len(s) :
                      s[i] \in keep /\ (i = 1 \/ s[i - 1] \notin keep)}
        endOf(i) == CHOOSE j \in i..Len(s) :
                        /\ \A k \in i..j : s[k] \in keep
                        /\ (j = Len(s) \/ s[j + 1] \notin keep)
        nth(n) == CHOOSE i \in starts : Cardinality({j \in starts : j < i}) = n - 1
    IN  [n \in 1..Cardinality(starts) |-> SubSeq(s, nth(n), endOf(nth(n)))]

_all_caps(message) == Upper(message)

_no_caps(message) == Lower(message)

_sentence_case(message) == Capitalize(message)

_title_case(message) == Title(message)

_small_caps(message) ==
    [i \in 1..Len(message) |->
        IF message[i] \in Range(Lowers)
        THEN FWUppers[IndexOf(Lowers, message[i])]
        ELSE message[i]]

\* A camel case that takes '_' for a separator like the other three.
_camel_case_alnum(message) ==
    LET words == Runs(message, Alnum)
    IN  Join(<<>>, [i \in 1..Len(words) |->
                      IF i > 1 THEN Capitalize(words[i]) ELSE Lower(words[i])])

_camel_case(message) ==
    LET words == Runs(message, Word)
    IN  Join(<<>>, [i \in 1..Len(words) |->
                      IF i > 1 THEN Capitalize(words[i]) ELSE Lower(words[i])])

_pascal_case(message) ==
    LET words == Runs(message, Alnum)
    IN  Join(<<>>, [i \in 1..Len(words) |-> Capitalize(words[i])])

_snake_case(message) ==
    LET words == Runs(message, Alnum)
    IN  Join(<<"_">>, [i \in 1..Len(words) |-> Lower(words[i])])

_kebab_case(message) ==
    LET words == Runs(message, Alnum)
    IN  Join(<<"-">>, [i \in 1..Len(words) |-> Lower(words[i])])

\* A convert_text that refuses an int that is none of the ten constants.
convert_text_known_only(message, text_case) ==
    IF text_case = None THEN Raise("TypeError")
    ELSE LET c == text_case[1] IN
         IF c \notin {NONE, NO_CAPS, ALL_CAPS, SMALL_CAPS, TITLE_CASE,
                      SENTENCE_CASE, PASCAL_CASE, CAMEL_CASE, SNAKE_CASE, KEBAB_CASE}
         THEN Raise("ValueError")
         ELSE Ok(CASE c = ALL_CAPS -> _all_caps(message)
                   [] c = CAMEL_CASE -> _camel_case(message)
                   [] c = KEBAB_CASE -> _kebab_case(message)
                   [] c = NONE -> message
                   [] c = NO_CAPS -> _no_caps(message)
                   [] c = PASCAL_CASE -> _pascal_case(message)
                   [] c = SENTENCE_CASE -> _sentence_case(message)
                   [] c = SMALL_CAPS -> _small_caps(message)
                   [] c = SNAKE_CASE -> _snake_case(message)
                   [] c = TITLE_CASE -> _title_case(message))

\* TextCase.convert_text.  text_case is an Optional int: None is rejected
\* by validate_type, any int that is no case constant is the default branch.
convert_text(message, text_case) ==
    IF text_case = None THEN Raise("TypeError")
    ELSE LET c == text_case[1] IN
         Ok(CASE c = ALL_CAPS -> _all_caps(message)
              [] c = CAMEL_CASE -> _camel_case(message)
              [] c = KEBAB_CASE -> _kebab_case(message)
              [] c = NONE -> message
              [] c = NO_CAPS -> _no_caps(message)
              [] c = PASCAL_CASE -> _pascal_case(message)
              [] c = SENTENCE_CASE -> _sentence_case(message)
              [] c = SMALL_CAPS -> _small_caps(message)
              [] c = SNAKE_CASE -> _snake_case(message)
              [] c = TITLE_CASE -> _title_case(message)
              [] OTHER -> message)

---------------------------------------------------------------------------
(* The regular expressions of the model: a pattern is a sequence of literal *)
(* characters and "." wildcards (a literal keyword is such a pattern); a    *)
(* "[" opens a character set that nothing closes, which re refuses.         *)

re_compiles(pattern) == "[" \notin Range(pattern)

\* A value that is not a str, such as the int 5, where a str is expected;
\* a str holds characters only.
NotStr == <<"<int>">>

IsStr(v) == Range(v) \subseteq Chars

\* One pattern character against one character of the string.
CharMatches(p, c, ignore_case) ==
    IF p = "." THEN c # "\n"
    ELSE IF ignore_case THEN LowerOf[p] = LowerOf[c]
    ELSE p = c

\* The pattern matches the string at position i (1-based).
MatchesAt(pattern, string, i, ignore_case) ==
    /\ i + Len(pattern) - 1 <= Len(string)
    /\ \A k \in 1..Len(pattern) :
          CharMatches(pattern[k], string[i + k - 1], ignore_case)

\* re.search(pattern, string, flags): is there a match anywhere.
re_search(pattern, string, ignore_case) ==
    IF ~IsStr(pattern) THEN Raise("TypeError")
    ELSE IF ~re_compiles(pattern) THEN Raise("re.error")
    ELSE Ok(\E i \in 1..(Len(string) + 1) :
               MatchesAt(pattern, string, i, ignore_case))

---------------------------------------------------------------------------
(* The style sequence builder and plain mode. *)

RESET == <<ESC, "[", "0", "m">>

\* An Optional str as the f-string prints it: '' for None.
OrEmpty(opt) == IF opt = None THEN <<>> ELSE opt[1]

\* A sequence builder that puts the background code before the colour code.
_get_colorize_sequence_background_first(text_color, text_background_color, text_effect) ==
    OrEmpty(text_background_color) \o OrEmpty(text_color) \o OrEmpty(text_effect)

_get_colorize_sequence(text_color, text_background_color, text_effect) ==
    OrEmpty(text_color) \o OrEmpty(text_background_color) \o OrEmpty(text_effect)

\* The styled text of the f-strings: sequence, converted text, RESET.  The
\* RESET is guarded by 'colorize_sequence is not None', and the sequence is
\* always a str.
Styled(colorize_sequence, text, text_case) ==
    LET converted == convert_text(text, text_case)
    IN  IF converted.exc # "none" THEN converted
        ELSE Ok(colorize_sequence \o converted.val \o RESET)

_get_colorized_message(message, text_color, text_background_color, text_effect, text_case) ==
    IF text_color = None /\ text_background_color = None /\ text_effect = None
    THEN convert_text(message, text_case)
    ELSE Styled(_get_colorize_sequence(text_color, text_background_color,
                                       text_effect),
                message, text_case)

---------------------------------------------------------------------------
(* re.sub with the styling lambda, single-pattern mode, rule-table mode. *)

\* The start of the leftmost match at or after position i, 0 when there is
\* none.
NextMatch(pattern, string, i, ignore_case) ==
    LET starts == {j \in i..(Len(string) + 1) :
                      MatchesAt(pattern, string, j, ignore_case)}
    IN  IF starts = {} THEN 0
        ELSE CHOOSE j \in starts : \A k \in starts : j <= k

\* re.sub(pattern, lambda match: styled(match.group()), string, flags) from
\* position i on: the non-overlapping matches, leftmost first, are replaced
\* and the text between them is copied.  After an empty match the scan moves
\* on by one character, which is copied.
RECURSIVE SubFrom(_, _, _, _, _, _)
SubFrom(pattern, string, i, ignore_case, colorize_sequence, text_case) ==
    LET at == NextMatch(pattern, string, i, ignore_case)
        repl == Styled(colorize_sequence,
                       SubSeq(string, at, at + Len(pattern) - 1), text_case)
        next == IF Len(pattern) = 0 THEN at + 1 ELSE at + Len(pattern)
        copied == IF Len(pattern) = 0 /\ at <= Len(string)
                  THEN <<string[at]>> ELSE <<>>
        rest == IF next > Len(string) + 1 THEN Ok(<<>>)
                ELSE SubFrom(pattern, string, next, ignore_case,
                             colorize_sequence, text_case)
    IN  IF at = 0 THEN Ok(SubSeq(string, i, Len(string)))
        ELSE IF repl.exc # "none" THEN repl
        ELSE IF rest.exc # "none" THEN rest
        ELSE Ok(SubSeq(string, i, at - 1) \o repl.val \o copied \o rest.val)

\* A re.sub with count=1: only the leftmost match is replaced.
re_sub_first_only(pattern, string, ignore_case, colorize_sequence, text_case) ==
    LET at == NextMatch(pattern, string, 1, ignore_case)
        repl == Styled(colorize_sequence,
                       SubSeq(string, at, at + Len(pattern) - 1), text_case)
    IN  IF ~re_compiles(pattern) THEN Raise("re.error")
        ELSE IF at = 0 THEN Ok(string)
        ELSE IF repl.exc # "none" THEN repl
        ELSE Ok(SubSeq(string, 1, at - 1) \o repl.val
                \o SubSeq(string, at + Len(pattern), Len(string)))

re_sub(pattern, string, ignore_case, colorize_sequence, text_case) ==
    IF ~re_compiles(pattern) THEN Raise("re.error")
    ELSE SubFrom(pattern, string, 1, ignore_case, colorize_sequence, text_case)

_get_colorized_message_by_regex_pattern(message, regex_pattern, text_color, text_background_color, text_effect, text_case, color_match, ignore_case) ==
    LET colorize_sequence ==
            _get_colorize_sequence(text_color, text_background_color, text_effect)
    IN  IF color_match
        THEN re_sub(regex_pattern, message, ignore_case, colorize_sequence,
                    text_case)
        ELSE LET found == re_search(regex_pattern, message, ignore_case)
             IN  IF found.exc # "none" THEN found
                 ELSE IF found.val
                 THEN Styled(colorize_sequence, message, text_case)
                 ELSE Ok(message)

---------------------------------------------------------------------------
(* ColorMapper: the rule table.  _mappings is a dict, modelled as the       *)
(* sequence of its items [name, keywords, color_mapping, flags] in          *)
(* insertion order, with no name twice.                                     *)

\* a < b for two str, as Python compares them: by code points, a proper
\* prefix first.
StrLess(a, b) ==
    \E i \in 1..(Len(b)) :
        /\ i <= Len(a) + 1
        /\ \A k \in 1..(i - 1) : a[k] = b[k]
        /\ (i = Len(a) + 1 \/ OrdOf[a[i]] < OrdOf[b[i]])

\* sorted(items): the items in ascending order of their keys.
RECURSIVE SortedItems(_)
SortedItems(items) ==
    IF items = <<>> THEN <<>>
    ELSE LET least == CHOOSE i \in 1..Len(items) :
                          \A j \in 1..Len(items) :
                              j # i => StrLess(items[i].name, items[j].name)
             others == [j \in 1..(Len(items) - 1) |->
                           IF j < least THEN items[j] ELSE items[j + 1]]
         IN  <<items[least]>> \o SortedItems(others)

\* The position of a key in the dict, 0 when it is absent.
KeyIndex(items, key) ==
    IF \E i \in 1..Len(items) : items[i].name = key
    THEN CHOOSE i \in 1..Len(items) : items[i].name = key
    ELSE 0

\* The rule add_mapping builds from its arguments.
NewRule(key, a) ==
    [name |-> key,
     keywords |-> IF a.keywords.t = "str" THEN <<a.keywords.v[1]>> ELSE a.keywords.v,
     color_mapping |-> [text_color |-> a.text_color,
                        text_background_color |-> a.text_background_color,
                        text_effect |-> a.text_effect,
                        text_case |-> a.text_case],
     flags |-> [ignore_case |-> a.ignore_case, color_match |-> a.color_match]]

\* An add_mapping that, for a name already present, extends the keywords of
\* the rule instead of replacing them.
add_mapping_merging(items, a) ==
    IF a.keywords.t \notin {"str", "list"} THEN [exc |-> "TypeError", val |-> items]
    ELSE LET key == Upper(a.name)
             at == KeyIndex(items, key)
         IN  [exc |-> "none",
              val |-> IF at # 0
                      THEN [items EXCEPT ![at] =
                               [NewRule(key, a) EXCEPT
                                   !.keywords = items[at].keywords \o @]]
                      ELSE Append(items, NewRule(key, a))]

\* ColorMapper.add_mapping: the outcome and the table after the call.  The
\* elements of a list of keywords are checked inside all(), and
\* validate_type returns None: all() stops after the first element.
add_mapping(items, a) ==
    IF a.keywords.t \notin {"str", "list"} THEN [exc |-> "TypeError", val |-> items]
    ELSE IF a.keywords.t = "list" /\ Len(a.keywords.v) > 0
            /\ ~IsStr(a.keywords.v[1])
    THEN [exc |-> "TypeError", val |-> items]
    ELSE LET key == Upper(a.name)
             at == KeyIndex(items, key)
         IN  [exc |-> "none",
              val |-> IF at # 0
                      THEN [items EXCEPT ![at] = NewRule(key, a)]
                      ELSE Append(items, NewRule(key, a))]

\* ColorMapper.get_mapping.
get_mapping(items, name) ==
    LET at == KeyIndex(items, Upper(name))
    IN  IF at = 0 THEN Raise("ValueError") ELSE Ok(items[at])

\* A get_mappings that forgets to sort: the dict in insertion order.
get_mappings_unsorted(items) == items

\* ColorMapper.get_mappings: dict(sorted(self._mappings.items())).
get_mappings(items) == SortedItems(items)

\* ColorMapper.is_valid_mapping.
is_valid_mapping(items, name) ==
    IF get_mapping(items, name).exc = "ValueError" THEN Ok(FALSE) ELSE Ok(TRUE)

\* ColorMapper.remove_mapping: the outcome and the table after the call.
remove_mapping(items, name) ==
    LET at == KeyIndex(items, Upper(name))
    IN  [exc |-> "none",
         val |-> IF at # 0
                 THEN [j \in 1..(Len(items) - 1) |->
                          IF j < at THEN items[j] ELSE items[j + 1]]
                 ELSE items]

---------------------------------------------------------------------------
(* Rule-table mode. *)

\* An inner loop without the break: after a keyword restyled the message the
\* later keywords are tried on the restyled message.
RECURSIVE KeywordLoopNoBreak(_, _, _)
KeywordLoopNoBreak(rule, k, colorized_message) ==
    IF k > Len(rule.keywords) THEN Ok(colorized_message)
    ELSE LET keyword_pattern == rule.keywords[k]
             ignore_case == rule.flags.ignore_case
             found == re_search(keyword_pattern, colorized_message, ignore_case)
             colorize_sequence ==
                 _get_colorize_sequence(rule.color_mapping.text_color,
                                        rule.color_mapping.text_background_color,
                                        rule.color_mapping.text_effect)
             text_case == rule.color_mapping.text_case
             restyled ==
                 IF rule.flags.color_match
                 THEN re_sub(keyword_pattern, colorized_message, ignore_case,
                             colorize_sequence, text_case)
                 ELSE Styled(colorize_sequence, colorized_message, text_case)
         IN  IF found.exc # "none" THEN found
             ELSE IF found.val
             THEN IF restyled.exc # "none" THEN restyled
                  ELSE KeywordLoopNoBreak(rule, k + 1, restyled.val)
             ELSE KeywordLoopNoBreak(rule, k + 1, colorized_message)

\* The inner loop of _get_colorized_message_by_mappings from keyword k on:
\* the first keyword found in the message restyles it and ends the loop.
RECURSIVE KeywordLoop(_, _, _)
KeywordLoop(rule, k, colorized_message) ==
    IF k > Len(rule.keywords) THEN Ok(colorized_message)
    ELSE LET keyword_pattern == rule.keywords[k]
             ignore_case == rule.flags.ignore_case
             found == re_search(keyword_pattern, colorized_message, ignore_case)
             colorize_sequence ==
                 _get_colorize_sequence(rule.color_mapping.text_color,
                                        rule.color_mapping.text_background_color,
                                        rule.color_mapping.text_effect)
             text_case == rule.color_mapping.text_case
         IN  IF found.exc # "none" THEN found
             ELSE IF found.val
             THEN IF rule.flags.color_match
                  THEN re_sub(keyword_pattern, colorized_message, ignore_case,
                              colorize_sequence, text_case)
                  ELSE Styled(colorize_sequence, colorized_message, text_case)
             ELSE KeywordLoop(rule, k + 1, colorized_message)

\* An outer loop that searches and restyles the message it was first given
\* instead of the output of the rule before: the last rule that matches wins.
RECURSIVE RuleLoopOnInput(_, _, _)
RuleLoopOnInput(items, i, colorized_message) ==
    IF i > Len(items) THEN Ok(colorized_message)
    ELSE LET step == KeywordLoop(items[i], 1, colorized_message)
             later == RuleLoopOnInput(items, i + 1, colorized_message)
         IN  IF step.exc # "none" THEN step
             ELSE IF later.exc # "none" THEN later
             ELSE IF later.val # colorized_message THEN later
             ELSE step

\* The outer loop over the items of get_mappings() from item i on.
RECURSIVE RuleLoop(_, _, _)
RuleLoop(items, i, colorized_message) ==
    IF i > Len(items) THEN Ok(colorized_message)
    ELSE LET step == KeywordLoop(items[i], 1, colorized_message)
         IN  IF step.exc # "none" THEN step
             ELSE RuleLoop(items, i + 1, step.val)

\* A rule-table mode that searches and substitutes matching case whatever
\* the ignore_case flag of the rule.
_get_colorized_message_by_mappings_matching_case(message, table) ==
    RuleLoop([i \in 1..Len(table) |->
                 [get_mappings(table)[i] EXCEPT !.flags.ignore_case = FALSE]],
             1, message)

_get_colorized_message_by_mappings(message, table) ==
    RuleLoop(get_mappings(table), 1, message)

---------------------------------------------------------------------------
(* The named registries: TextColor, TextBackgroundColor, TextEffect.  A     *)
(* dict from names to codes is a function on the set of its keys.           *)

\* dict[key] = value and del dict[key].
DictSet(dict, key, value) ==
    [k \in DOMAIN dict \cup {key} |-> IF k = key THEN value ELSE dict[k]]

DictDel(dict, key) == [k \in DOMAIN dict \ {key} |-> dict[k]]

\* HEXCodes.
HEXCodes ==
    (<<"A", "B", "S", "O", "L", "U", "T", "E", "_", "Z", "E", "R", "O">> :> <<"#", "0", "0", "4", "8", "B", "A">>) @@
    (<<"A", "C", "I", "D", "_", "G", "R", "E", "E", "N">> :> <<"#", "B", "0", "B", "F", "1", "A">>) @@
    (<<"A", "E", "R", "O">> :> <<"#", "7", "C", "B", "9", "E", "8">>) @@
    (<<"A", "F", "R", "I", "C", "A", "N", "_", "V", "I", "O", "L", "E", "T">> :> <<"#", "B", "2", "8", "4", "B", "E">>) @@
    (<<"A", "I", "R", "_", "S", "U", "P", "E", "R", "I", "O", "R", "I", "T", "Y", "_", "B", "L", "U", "E">> :> <<"#", "7", "2", "A", "0", "C", "1">>)

\* TextColor._standard_colors and TextColor._true_colors as the class
\* body builds them.
TextColor_standard_colors ==
    (<<"B", "L", "A", "C", "K">> :> <<ESC, "[", "3", "0", "m">>) @@
    (<<"R", "E", "D">> :> <<ESC, "[", "3", "1", "m">>) @@
    (<<"G", "R", "E", "E", "N">> :> <<ESC, "[", "3", "2", "m">>) @@
    (<<"Y", "E", "L", "L", "O", "W">> :> <<ESC, "[", "3", "3", "m">>) @@
    (<<"B", "L", "U", "E">> :> <<ESC, "[", "3", "4", "m">>) @@
    (<<"M", "A", "G", "E", "N", "T", "A">> :> <<ESC, "[", "3", "5", "m">>) @@
    (<<"C", "Y", "A", "N">> :> <<ESC, "[", "3", "6", "m">>) @@
    (<<"W", "H", "I", "T", "E">> :> <<ESC, "[", "3", "7", "m">>)

TextColor_true_colors ==
    [name \in DOMAIN HEXCodes |-> hex_to_ansi(HEXCodes[name], Foreground, TRUE).val]

\* TextBackgroundColor._standard_colors and ._true_colors.
TextBackgroundColor_standard_colors ==
    (<<"B", "L", "A", "C", "K">> :> <<ESC, "[", "4", "0", "m">>) @@
    (<<"R", "E", "D">> :> <<ESC, "[", "4", "1", "m">>) @@
    (<<"G", "R", "E", "E", "N">> :> <<ESC, "[", "4", "2", "m">>) @@
    (<<"Y", "E", "L", "L", "O", "W">> :> <<ESC, "[", "4", "3", "m">>) @@
    (<<"B", "L", "U", "E">> :> <<ESC, "[", "4", "4", "m">>) @@
    (<<"M", "A", "G", "E", "N", "T", "A">> :> <<ESC, "[", "4", "5", "m">>) @@
    (<<"C", "Y", "A", "N">> :> <<ESC, "[", "4", "6", "m">>) @@
    (<<"W", "H", "I", "T", "E">> :> <<ESC, "[", "4", "7", "m">>)

TextBackgroundColor_true_colors ==
    [name \in DOMAIN HEXCodes |-> hex_to_ansi(HEXCodes[name], Background, TRUE).val]

\* TextEffect._effects.
TextEffect_effects ==
    (<<"B", "O", "L", "D">> :> <<ESC, "[", "1", "m">>) @@
    (<<"I", "T", "A", "L", "I", "C">> :> <<ESC, "[", "3", "m">>) @@
    (<<"M", "O", "N", "O", "S", "P", "A", "C", "E">> :> <<ESC, "[", "7", "m">>) @@
    (<<"S", "T", "R", "I", "K", "E", "T", "H", "R", "O", "U", "G", "H">> :> <<ESC, "[", "9", "m">>) @@
    (<<"U", "N", "D", "E", "R", "L", "I", "N", "E">> :> <<ESC, "[", "4", "m">>)

\* A component test that takes any run of digits.
ComponentOkAnyDigits(s) == IsDigits(s)

\* One component of the true-colour pattern of add_color:
\* (?:0|1?\d{1,2}|2[0-4]\d|25[0-5]).
ComponentOk(s) ==
    /\ IsDigits(s)
    /\ \/ Len(s) <= 2
       \/ Len(s) = 3 /\ DecValue(s) >= 100 /\ DecValue(s) <= 255

\* re.match of the true-colour pattern of add_color for a layer on the code.
TruePatternOk(layer, code) ==
    LET prefix == Dec(layer) \o <<";", "2", ";">>
        parts == Split(SubSeq(code, Len(prefix) + 1, Len(code)))
    IN  /\ StartsWith(code, prefix)
        /\ Len(parts) = 3
        /\ \A i \in 1..3 : ComponentOk(parts[i])

\* An add_color that stores the code under the name before it looks at
\* the form of the code.
ColorAddStoringFirst(layer, tables, name, ansi_code, true_color, supported) ==
    LET code == RStripM(SubSeq(ansi_code, 3, Len(ansi_code)))
        stored == IF true_color
                  THEN [tables EXCEPT !.true = DictSet(@, Upper(name), ansi_code)]
                  ELSE [tables EXCEPT !.standard = DictSet(@, Upper(name), ansi_code)]
    IN  IF validate_ansi(ansi_code).exc # "none"
        THEN [exc |-> "ValueError", val |-> tables]
        ELSE IF true_color /\ ~supported
        THEN [exc |-> "Warning", val |-> tables]
        ELSE IF true_color /\ ~TruePatternOk(layer, code)
        THEN [exc |-> "ValueError", val |-> stored]
        ELSE IF ~true_color /\ ~IsDigits(code)
        THEN [exc |-> "ValueError", val |-> stored]
        ELSE [exc |-> "none", val |-> stored]

\* add_color of TextColor (layer Foreground) and of TextBackgroundColor
\* (layer Background) on the tables [standard, true] of the class;
\* supported is what _is_true_color_supported() returns.
ColorAdd(layer, tables, name, ansi_code, true_color, supported) ==
    LET code == RStripM(SubSeq(ansi_code, 3, Len(ansi_code)))
    IN  IF validate_ansi(ansi_code).exc # "none"
        THEN [exc |-> "ValueError", val |-> tables]
        ELSE IF true_color /\ ~supported
        THEN [exc |-> "Warning", val |-> tables]
        ELSE IF true_color
        THEN IF ~TruePatternOk(layer, code)
             THEN [exc |-> "ValueError", val |-> tables]
             ELSE [exc |-> "none",
                   val |-> [tables EXCEPT
                               !.true = DictSet(@, Upper(name), ansi_code)]]
        ELSE IF ~IsDigits(code)
             THEN [exc |-> "ValueError", val |-> tables]
             ELSE [exc |-> "none",
                   val |-> [tables EXCEPT
                               !.standard = DictSet(@, Upper(name), ansi_code)]]

\* A get_color that looks the name up as the caller wrote it.
ColorGetAsWritten(tables, name, true_color) ==
    LET dict == IF true_color THEN tables.true ELSE tables.standard
    IN  IF name \in DOMAIN dict THEN Ok(dict[name])
        ELSE Raise("ValueError")

\* get_color of either class.
ColorGet(tables, name, true_color) ==
    LET dict == IF true_color THEN tables.true ELSE tables.standard
    IN  IF Upper(name) \in DOMAIN dict THEN Ok(dict[Upper(name)])
        ELSE Raise("ValueError")

\* A remove_color that deletes without looking whether the name is there.
ColorRemoveUnguarded(tables, name, true_color) ==
    LET dict == IF true_color THEN tables.true ELSE tables.standard
    IN  IF Upper(name) \notin DOMAIN dict
        THEN [exc |-> "KeyError", val |-> tables]
        ELSE [exc |-> "none",
              val |-> IF true_color
                      THEN [tables EXCEPT !.true = DictDel(@, Upper(name))]
                      ELSE [tables EXCEPT !.standard = DictDel(@, Upper(name))]]

\* remove_color of either class.
ColorRemove(tables, name, true_color) ==
    IF true_color
    THEN [exc |-> "none",
          val |-> IF Upper(name) \in DOMAIN tables.true
                  THEN [tables EXCEPT !.true = DictDel(@, Upper(name))]
                  ELSE tables]
    ELSE [exc |-> "none",
          val |-> IF Upper(name) \in DOMAIN tables.standard
                  THEN [tables EXCEPT !.standard = DictDel(@, Upper(name))]
                  ELSE tables]

\* is_valid_color of either class: get_color(...) is not None, and False
\* when get_color raises ValueError.
ColorIsValid(tables, name, true_color) ==
    Ok(ColorGet(tables, name, true_color).exc = "none")

TextColor_get_color(tables, name, true_color) ==
    ColorGet(tables, name, true_color)

TextColor_is_true_color(tables, name) == ColorIsValid(tables, name, TRUE)

TextBackgroundColor_get_color(tables, name, true_color) ==
    ColorGet(tables, name, true_color)

TextColor_add_color(tables, name, ansi_code, true_color, supported) ==
    ColorAdd(Foreground, tables, name, ansi_code, true_color, supported)

TextColor_remove_color(tables, name, true_color) ==
    ColorRemove(tables, name, true_color)

TextBackgroundColor_add_color(tables, name, ansi_code, true_color, supported) ==
    ColorAdd(Background, tables, name, ansi_code, true_color, supported)

TextBackgroundColor_remove_color(tables, name, true_color) ==
    ColorRemove(tables, name, true_color)

\* TextEffect.add_effect.
add_effect(dict, name, ansi_code) ==
    IF validate_ansi(ansi_code).exc # "none"
    THEN [exc |-> "ValueError", val |-> dict]
    ELSE IF ~IsDigits(RStripM(SubSeq(ansi_code, 3, Len(ansi_code))))
    THEN [exc |-> "ValueError", val |-> dict]
    ELSE [exc |-> "none", val |-> DictSet(dict, Upper(name), ansi_code)]

\* TextEffect.get_effect.
get_effect(dict, name) ==
    IF Upper(name) \in DOMAIN dict THEN Ok(dict[Upper(name)])
    ELSE Raise("ValueError")

\* TextEffect.remove_effect.
remove_effect(dict, name) ==
    [exc |-> "none",
     val |-> IF Upper(name) \in DOMAIN dict THEN DictDel(dict, Upper(name))
             ELSE dict]

---------------------------------------------------------------------------
(* The inputs of the model. *)

RED == TextColor_standard_colors[<<"R", "E", "D">>]

GREEN_BG == TextBackgroundColor_standard_colors[<<"G", "R", "E", "E", "N">>]

BOLD == TextEffect_effects[<<"B", "O", "L", "D">>]

\* The names given to rules: two spell the same upper-cased name.
Names == {<<"a">>, <<"A">>, <<"b">>}

UpperNames == {Upper(n) : n \in Names}

\* The messages given to rule-table mode: over the characters of the
\* keywords, and two with an upper-case letter.
Messages == SeqUpTo({"a", "m"}, MaxMessage) \cup {<<"A">>, <<"A", "m">>}

\* The keywords argument of add_mapping: one str, [t |-> "str", v |-> Some(s)],
\* or a list of str, [t |-> "list", v |-> the list].
KeywordInputs ==
    {[t |-> "str", v |-> Some(<<"a">>)],
     [t |-> "list", v |-> <<<<"m">>>>],
     [t |-> "list", v |-> <<<<"a">>, <<"m">>>>]}

\* The style arguments of add_mapping: text_color, text_case and
\* color_match.
StyleInputs ==
    {<<Some(RED), Some(NONE), TRUE>>, <<Some(RED), Some(NONE), FALSE>>,
     <<None, Some(ALL_CAPS), TRUE>>}

\* The arguments of the add_mapping calls: case-sensitive rules over all
\* keywords and styles, a case-insensitive rule for the keyword 'a', a call
\* whose keywords are neither a str nor a list, and a rule whose second
\* keyword is a pattern re refuses.
MapperArgs ==
    {[name |-> n, keywords |-> k, text_color |-> st[1],
      text_background_color |-> None, text_effect |-> None,
      text_case |-> st[2], color_match |-> st[3], ignore_case |-> FALSE] :
        n \in Names, k \in KeywordInputs, st \in StyleInputs}
    \cup
    {[name |-> n, keywords |-> [t |-> "str", v |-> Some(<<"a">>)],
      text_color |-> None, text_background_color |-> None,
      text_effect |-> None, text_case |-> Some(ALL_CAPS),
      color_match |-> FALSE, ignore_case |-> TRUE] : n \in Names}
    \cup
    {[name |-> n, keywords |-> [t |-> "int", v |-> <<>>],
      text_color |-> None, text_background_color |-> None,
      text_effect |-> None, text_case |-> Some(NONE), color_match |-> FALSE,
      ignore_case |-> FALSE] : n \in Names}
    \cup
    {[name |-> <<"b">>, keywords |-> [t |-> "list", v |-> <<<<"a">>, <<"[">>>>],
      text_color |-> Some(RED), text_background_color |-> None,
      text_effect |-> None, text_case |-> Some(NONE), color_match |-> FALSE,
      ignore_case |-> FALSE]}

---------------------------------------------------------------------------
(* The rule table and rule-table mode as a state machine. *)

InitCommon ==
    /\ mappings = <<>>
    /\ recent = [u \in UpperNames |-> None]
    /\ tc_standard = TextColor_standard_colors
    /\ tc_true = TextColor_true_colors
    /\ bg_standard = TextBackgroundColor_standard_colors
    /\ bg_true = TextBackgroundColor_true_colors
    /\ effects = TextEffect_effects
    /\ last = [op |-> "init"]

Init == InitCommon /\ true_color_ok = TRUE /\ request = None

registries == <<tc_standard, tc_true, bg_standard, bg_true, effects, true_color_ok>>

\* ColorMapper.add_mapping(name, keywords, ...) with arguments from args.
AddMappingWith(args) ==
    \E a \in args :
        LET r == add_mapping(mappings, a)
        IN  /\ mappings' = r.val
            /\ recent' = IF r.exc = "none"
                         THEN [recent EXCEPT ![Upper(a.name)] = Some(a)]
                         ELSE recent
            /\ last' = [op |-> "add_mapping", name |-> a.name, exc |-> r.exc]
            /\ UNCHANGED <<registries, request>>

AddMapping == AddMappingWith(MapperArgs)

\* ColorMapper.remove_mapping(name).
RemoveMapping ==
    \E name \in Names :
        LET r == remove_mapping(mappings, name)
        IN  /\ mappings' = r.val
            /\ recent' = [recent EXCEPT ![Upper(name)] = None]
            /\ last' = [op |-> "remove_mapping", name |-> name, exc |-> r.exc,
                        present |-> KeyIndex(mappings, Upper(name)) # 0]
            /\ UNCHANGED <<registries, request>>

\* ColorMapper.get_mapping(name).
GetMapping ==
    \E name \in Names :
        LET r == get_mapping(mappings, name)
        IN  /\ last' = [op |-> "get_mapping", name |-> name, exc |-> r.exc,
                        val |-> r.val]
            /\ UNCHANGED <<mappings, recent, registries, request>>

\* ColorMapper.is_valid_mapping(name).
IsValidMapping ==
    \E name \in Names :
        LET r == is_valid_mapping(mappings, name)
        IN  /\ last' = [op |-> "is_valid_mapping", name |-> name, exc |-> r.exc,
                        val |-> r.val]
            /\ UNCHANGED <<mappings, recent, registries, request>>

\* _get_colorized_message_by_mappings(message, mappings).
ByMappings ==
    \E message \in Messages :
        LET r == _get_colorized_message_by_mappings(message, mappings)
        IN  /\ last' = [op |-> "by_mappings", message |-> message,
                        exc |-> r.exc, val |-> r.val]
            /\ UNCHANGED <<mappings, recent, registries, request>>

Next ==
    \/ AddMapping
    \/ RemoveMapping
    \/ GetMapping
    \/ IsValidMapping
    \/ ByMappings

Spec == Init /\ [][Next]_vars

---------------------------------------------------------------------------
(* Claims about the rule table and rule-table mode (specification Spec). *)

\* The tables that hold the same rules as items, in every insertion order.
SameRules(items) ==
    {[i \in 1..Len(items) |-> items[f[i]]] : f \in Permutations(1..Len(items))}

\* The rules of a table in ascending order of their (upper-cased) names.
Ascending(items) ==
    CHOOSE q \in SameRules(items) :
        \A i \in 1..Len(q) : \A j \in (i + 1)..Len(q) : StrLess(q[i].name, q[j].name)

LastResult == [exc |-> last.exc, val |-> last.val]

\* The outcome of the rules of a table (in ascending order of name) up to
\* and including the i-th, on a message.
UpTo(items, i, message) ==
    _get_colorized_message_by_mappings(message, SubSeq(Ascending(items), 1, i))

\* The keywords of a rule that match a message, by position in the list.
Matching(rule, message) ==
    {k \in 1..Len(rule.keywords) :
        LET found == re_search(rule.keywords[k], message, rule.flags.ignore_case)
        IN  found.exc = "none" /\ found.val}

\* The keywords of a rule at which the search of a message ends: those that
\* match it and those re refuses to compile.
Ending(rule, message) ==
    Matching(rule, message)
    \cup {k \in 1..Len(rule.keywords) : ~re_compiles(rule.keywords[k])}

\* C1: rule-table mode applies the rules in ascending lexicographic order of
\* their upper-cased names whatever the order of the add_mapping calls: a
\* table that holds the same rules in any other insertion order returns the
\* same string for the message, and that string is what the loop over the
\* rules in ascending order of name returns.
C1_OrderIndependent ==
    last.op = "by_mappings" =>
        /\ \A other \in SameRules(mappings) :
              _get_colorized_message_by_mappings(last.message, other) = LastResult
        /\ RuleLoop(Ascending(mappings), 1, last.message) = LastResult

\* C1 witness: a table whose insertion order is not its name order was
\* evaluated, and the loop over the rules in insertion order would have
\* returned another string.
C1_Witness ==
    /\ last.op = "by_mappings"
    /\ Len(mappings) = 2
    /\ StrLess(mappings[2].name, mappings[1].name)
    /\ RuleLoop(mappings, 1, last.message) # LastResult

\* C2: within one rule the keywords are tried in list order on the current
\* message and the first that matches is the only one used: the rule leaves
\* the message as it is when no keyword matches, and otherwise turns it into
\* what single-pattern mode returns for the first matching keyword alone
\* (so with color_match only the occurrences of that keyword are styled).
\* A keyword re refuses ends the search like a match, with the error of
\* single-pattern mode.
C2_FirstKeywordOnly ==
    last.op = "by_mappings" =>
        /\ UpTo(mappings, Len(mappings), last.message) = LastResult
        /\ \A i \in 1..Len(mappings) :
               LET rule == Ascending(mappings)[i]
                   current == UpTo(mappings, i - 1, last.message)
                   after == UpTo(mappings, i, last.message)
                   hits == Ending(rule, current.val)
                   first == CHOOSE k \in hits : \A h \in hits : k <= h
               IN  current.exc = "none" =>
                       after =
                           IF hits = {} THEN current
                           ELSE _get_colorized_message_by_regex_pattern(
                                    current.val, rule.keywords[first],
                                    rule.color_mapping.text_color,
                                    rule.color_mapping.text_background_color,
                                    rule.color_mapping.text_effect,
                                    rule.color_mapping.text_case,
                                    rule.flags.color_match, rule.flags.ignore_case)

\* C2 witness: a rule with color_match whose two keywords both occur in the
\* message was evaluated, and the occurrence of the second keyword stands in
\* the result unstyled, as the last character.
C2_Witness ==
    /\ last.op = "by_mappings"
    /\ Len(mappings) = 1
    /\ mappings[1].flags.color_match
    /\ Cardinality(Matching(mappings[1], last.message)) = 2
    /\ last.val # last.message
    /\ last.val[Len(last.val)] = last.message[Len(last.message)]

\* The rules of a table applied one at a time, each as a table of its own,
\* in ascending order of name, each to the output of the one before.
RECURSIVE StepByStep(_, _)
StepByStep(ordered, message) ==
    IF ordered = <<>> THEN Ok(message)
    ELSE LET step == _get_colorized_message_by_mappings(message, <<ordered[1]>>)
         IN  IF step.exc # "none" THEN step
             ELSE StepByStep(Tail(ordered), step.val)

\* C3: each rule is given the output of the rule before it in evaluation
\* order, a rule none of whose keywords matches leaves the message as it is
\* (its keywords being patterns re compiles: one it refuses ends the
\* evaluation with an error), and the result is the left-to-right
\* composition of the per-rule steps starting from the caller's message.
C3_Composition ==
    last.op = "by_mappings" =>
        /\ StepByStep(Ascending(mappings), last.message) = LastResult
        /\ \A i \in 1..Len(mappings) :
              LET current == UpTo(mappings, i - 1, last.message)
              IN  (current.exc = "none"
                   /\ Ending(Ascending(mappings)[i], current.val) = {})
                  => UpTo(mappings, i, last.message) = current

\* C3 witness: two rules restyled one message in one evaluation, the second
\* through a keyword that occurs only in the escape sequence the first had
\* put in.
C3_Witness ==
    /\ last.op = "by_mappings"
    /\ Len(mappings) = 2
    /\ LET first == UpTo(mappings, 1, last.message)
           rule == Ascending(mappings)[2]
       IN  /\ first.val # last.message
           /\ last.val # first.val
           /\ Matching(rule, last.message) = {}
           /\ Matching(rule, first.val) # {}

\* The rule a successful add_mapping call with arguments a stores.
Stored(a) ==
    [name |-> Upper(a.name),
     keywords |-> IF a.keywords.t = "str" THEN <<a.keywords.v[1]>> ELSE a.keywords.v,
     color_mapping |-> [text_color |-> a.text_color,
                        text_background_color |-> a.text_background_color,
                        text_effect |-> a.text_effect,
                        text_case |-> a.text_case],
     flags |-> [ignore_case |-> a.ignore_case, color_match |-> a.color_match]]

\* C4: after any sequence of add_mapping and remove_mapping calls the table
\* holds, for each upper-cased name, exactly the keywords, style and flags
\* of the most recent add_mapping for that name not followed by a
\* remove_mapping, and nothing for the other names; get_mapping returns that
\* rule and raises ValueError, and is_valid_mapping returns False, exactly
\* when the name is absent.
C4_TableIsMostRecentAdd ==
    /\ \A i \in 1..Len(mappings) : mappings[i].name \in UpperNames
    /\ \A u \in UpperNames :
          LET held == {i \in 1..Len(mappings) : mappings[i].name = u}
          IN  IF recent[u] = None THEN held = {}
              ELSE /\ Cardinality(held) = 1
                   /\ \A i \in held : mappings[i] = Stored(recent[u][1])
    /\ last.op = "get_mapping" =>
          IF recent[Upper(last.name)] = None
          THEN last.exc = "ValueError"
          ELSE last.exc = "none" /\ last.val = Stored(recent[Upper(last.name)][1])
    /\ last.op = "is_valid_mapping" =>
          last.exc = "none" /\ last.val = (recent[Upper(last.name)] # None)

\* C4 witness: get_mapping, asked under one spelling of a name while the
\* table holds two rules, returned the rule most recently added under the
\* other spelling of that name.
C4_Witness ==
    /\ last.op = "get_mapping"
    /\ last.exc = "none"
    /\ last.name # recent[Upper(last.name)][1].name
    /\ Len(mappings) = 2
    /\ Len(last.val.keywords) = 1
    /\ last.val.flags.ignore_case

---------------------------------------------------------------------------
(* Plain mode and single-pattern mode as calls on one message              *)
(* (specification SpecEngine): the caller's arguments are drawn at the      *)
(* start, and the call puts its outcome in last.                            *)

\* The messages given to plain and single-pattern mode.
EngineMessages == SeqUpTo({"a", "A", " "}, MaxLen)

\* The patterns: a literal, a two-character literal, the empty pattern, the
\* wildcard, and a pattern re refuses.
Patterns == {<<"a">>, <<"a", "a">>, <<>>, <<".">>, <<"[">>}

\* The text_case arguments: None is accepted by the type check of echo and
\* of add_mapping and refused by convert_text.
EngineCases ==
    {None, Some(NONE), Some(NO_CAPS), Some(ALL_CAPS), Some(SMALL_CAPS),
     Some(TITLE_CASE), Some(SENTENCE_CASE), Some(PASCAL_CASE),
     Some(CAMEL_CASE), Some(SNAKE_CASE), Some(KEBAB_CASE)}

PlainRequests ==
    [op : {"plain"}, message : EngineMessages,
     text_color : {None, Some(RED)},
     text_background_color : {None, Some(GREEN_BG)},
     text_effect : {None, Some(BOLD)}, text_case : EngineCases]

RegexRequests ==
    [op : {"by_regex"}, message : EngineMessages, regex_pattern : Patterns,
     text_color : {None, Some(RED)},
     text_background_color : {None, Some(GREEN_BG)},
     text_effect : {None, Some(BOLD)}, text_case : EngineCases,
     color_match : BOOLEAN, ignore_case : BOOLEAN]

InitEngine ==
    /\ InitCommon
    /\ true_color_ok = TRUE
    /\ request \in PlainRequests \cup RegexRequests

\* _get_colorized_message(message, text_color, ...).
Plain ==
    /\ request.op = "plain"
    /\ LET r == _get_colorized_message(request.message, request.text_color,
                    request.text_background_color, request.text_effect,
                    request.text_case)
       IN  last' = [op |-> "plain", exc |-> r.exc, val |-> r.val]
    /\ UNCHANGED <<mappings, recent, registries, request>>

\* _get_colorized_message_by_regex_pattern(message, regex_pattern, ...).
ByRegex ==
    /\ request.op = "by_regex"
    /\ LET r == _get_colorized_message_by_regex_pattern(request.message,
                    request.regex_pattern, request.text_color,
                    request.text_background_color, request.text_effect,
                    request.text_case, request.color_match, request.ignore_case)
       IN  last' = [op |-> "by_regex", exc |-> r.exc, val |-> r.val]
    /\ UNCHANGED <<mappings, recent, registries, request>>

NextEngine ==
    \/ Plain
    \/ ByRegex

SpecEngine == InitEngine /\ [][NextEngine]_vars

\* Some style is given: a colour, a background or an effect.
SomeStyle ==
    \/ request.text_color # None
    \/ request.text_background_color # None
    \/ request.text_effect # None

\* The pattern of the request occurs somewhere in its message.
Found ==
    \E i \in 1..(Len(request.message) + 1) :
        MatchesAt(request.regex_pattern, request.message, i, request.ignore_case)

\* C6: single-pattern mode with color_match=False returns the message
\* unchanged when the pattern matches nowhere, and when it matches returns
\* the whole message styled as plain mode styles it: sequence, converted
\* message and RESET when some style is given, and only the converted
\* message, without a trailing RESET, when none is given.
C6_WholeMessageAsPlainMode ==
    (/\ last.op = "by_regex"
     /\ ~request.color_match
     /\ re_compiles(request.regex_pattern)) =>
        LastResult =
            IF ~Found THEN Ok(request.message)
            ELSE _get_colorized_message(request.message, request.text_color,
                     request.text_background_color, request.text_effect,
                     request.text_case)

\* The starts of the occurrences re.sub replaces: a match is taken unless
\* an occurrence taken further left reaches over its start.
Occurrences ==
    LET n == Len(request.message)
        width == Len(request.regex_pattern)
        taken[p \in 1..(n + 1)] ==
            /\ MatchesAt(request.regex_pattern, request.message, p,
                         request.ignore_case)
            /\ \A q \in 1..(p - 1) : taken[q] => q + width <= p
    IN  {p \in 1..(n + 1) : taken[p]}

\* What stands in the result for position p of the message: the styled
\* occurrence that starts there, then the character itself unless an
\* occurrence holds it.
Piece(p) ==
    LET width == Len(request.regex_pattern)
        matched == SubSeq(request.message, p, p + width - 1)
        sequence == OrEmpty(request.text_color)
                    \o OrEmpty(request.text_background_color)
                    \o OrEmpty(request.text_effect)
        held == \E q \in Occurrences : q <= p /\ p < q + width
    IN  (IF p \in Occurrences
         THEN sequence \o convert_text(matched, request.text_case).val \o RESET
         ELSE <<>>)
        \o (IF p <= Len(request.message) /\ ~held
            THEN <<request.message[p]>> ELSE <<>>)

RECURSIVE Pieces(_)
Pieces(p) ==
    IF p > Len(request.message) + 1 THEN <<>> ELSE Piece(p) \o Pieces(p + 1)

\* C7: single-pattern mode with color_match=True replaces every
\* non-overlapping occurrence of the pattern, found left to right, by
\* sequence + converted occurrence + RESET, leaves every character outside
\* the occurrences as it is, and returns the message unchanged when there is
\* no occurrence.
C7_EveryOccurrenceReplaced ==
    (/\ last.op = "by_regex"
     /\ request.color_match
     /\ re_compiles(request.regex_pattern)) =>
        IF Occurrences = {} THEN LastResult = Ok(request.message)
        ELSE IF request.text_case = None THEN last.exc = "TypeError"
        ELSE LastResult = Ok(Pieces(1))

\* C7 witness: two occurrences were styled and converted to upper case, and
\* the space between them stands in the result as it was.
C7_Witness ==
    /\ last.op = "by_regex"
    /\ last.exc = "none"
    /\ request.color_match
    /\ Len(request.regex_pattern) = 1
    /\ Cardinality(Occurrences) = 2
    /\ request.message[2] = " "
    /\ request.text_case = Some(ALL_CAPS)
    /\ request.text_color # None
    /\ last.val = OrEmpty(request.text_color) \o <<"A">> \o RESET \o <<" ">>
                  \o OrEmpty(request.text_color) \o <<"A">> \o RESET

\* C8: plain mode returns exactly the converted message, with no escape
\* sequence and no RESET, when colour, background and effect are all
\* absent, and otherwise the codes that are present in the order colour,
\* background, effect, then the converted message, then one RESET.
C8_PlainMode ==
    last.op = "plain" =>
        LET converted == convert_text(request.message, request.text_case)
        IN  IF converted.exc # "none" THEN LastResult = converted
            ELSE /\ last.exc = "none"
                 /\ IF ~SomeStyle
                    THEN /\ last.val = converted.val
                         /\ ESC \notin Range(last.val)
                    ELSE /\ last.val =
                              OrEmpty(request.text_color)
                              \o OrEmpty(request.text_background_color)
                              \o OrEmpty(request.text_effect)
                              \o converted.val \o <<ESC, "[", "0", "m">>
                         /\ Cardinality({i \in 1..(Len(last.val) - 3) :
                                SubSeq(last.val, i, i + 3) = <<ESC, "[", "0", "m">>})
                            = 1

\* C8 witness: a message was styled with a colour, a background and an
\* effect and converted to another case.
C8_Witness ==
    /\ last.op = "plain"
    /\ last.exc = "none"
    /\ request.text_color # None
    /\ request.text_background_color # None
    /\ request.text_effect # None
    /\ Len(request.message) = 3
    /\ request.text_case = Some(TITLE_CASE)
    /\ request.message # convert_text(request.message, request.text_case).val

---------------------------------------------------------------------------
(* The codec as calls on one colour value (specification SpecCodec): a HEX  *)
(* code is turned into an ANSI code, and an ANSI code, that one or one the  *)
(* caller wrote, is turned back into RGB, HEX and CMYK.                     *)

\* The hexadecimal digits the HEX codes are written with.
HexSample == SubSeq(<<"f", "0", "A", "9", "c", "7", "E", "1">>, 1, MaxHexDigits)

\* HEX codes: '#' and six digits, and strings that are not of that form.
HexInputs ==
    {<<"#">> \o d : d \in [1..6 -> Range(HexSample)]}
    \cup {<<"#", "f", "f">>,
          <<"f", "f", "f", "f", "f", "f", "f">>,
          <<"#", "g", "g", "g", "g", "g", "g">>,
          <<"#", "f", "f", "f", "f", "f", "f", "\n">>,
          <<"#", "4", "0", "4", "0", "4", "0">>,
          <<"#", "8", "0", "0", "0", "8", "0">>}

\* ANSI strings the caller writes: ESC [ body m over a few characters, the
\* same without the final m or with a newline after it, and longer codes.
AnsiInputs ==
    LET bodies == SeqUpTo({"3", "8", "2", ";"}, MaxBody)
    IN  {<<ESC, "[">> \o b \o <<"m">> : b \in bodies}
        \cup {<<ESC, "[">> \o b : b \in bodies}
        \cup {<<ESC, "[">> \o b \o <<"m", "\n">> : b \in bodies}
        \cup {<<ESC, "[", "1", "0", "7", "m">>,
              <<ESC, "[", "3", "8", ";", "2", ";", "1", ";", "2", ";", "3", "m">>,
              <<ESC, "[", "4", "8", ";", "2", ";", "1", ";", "2", "m">>,
              <<ESC, "[", "3", "8", ";", "2", ";", "3", "0", "0", ";", "0", ";", "0", "m">>,
              <<ESC, "[", "3", "8", ";", "2", ";", "1", ";", "2", ";", "3", "m", "\n">>}

HexRequests ==
    [op : {"hex"}, hex_code : HexInputs, layer : {Foreground, Background},
     true_color : BOOLEAN, origin : {None}]

\* The components given to the codec: in 0..255, and just outside.
RgbSample == {0, 9, 10, 15, 16, 128, 255, -1, 256}

RgbRequests ==
    [op : {"rgb"}, r : RgbSample, g : RgbSample, b : RgbSample, origin : {None}]

AnsiRequests == [op : {"ansi"}, ansi : AnsiInputs, origin : {None}]

InitCodec ==
    /\ InitCommon
    /\ true_color_ok = TRUE
    /\ request \in HexRequests \cup AnsiRequests \cup RgbRequests

\* Color.hex_to_ansi(hex_code, layer, true_color); the caller goes on with
\* the code it returns.
HexToAnsi ==
    /\ request.op = "hex"
    /\ LET r == hex_to_ansi(request.hex_code, request.layer, request.true_color)
       IN  /\ last' = [op |-> "hex_to_ansi", exc |-> r.exc, val |-> r.val]
           /\ request' = IF r.exc = "none"
                         THEN [op |-> "ansi", ansi |-> r.val,
                               origin |-> Some(request)]
                         ELSE request
    /\ UNCHANGED <<mappings, recent, registries>>

\* Color.ansi_to_rgb(ansi).
AnsiToRgb ==
    /\ request.op = "ansi"
    /\ LET r == ansi_to_rgb(request.ansi)
       IN  last' = [op |-> "ansi_to_rgb", exc |-> r.exc, val |-> r.val]
    /\ UNCHANGED <<mappings, recent, registries, request>>

\* Color.ansi_to_hex(ansi).
AnsiToHex ==
    /\ request.op = "ansi"
    /\ LET r == ansi_to_hex(request.ansi)
       IN  last' = [op |-> "ansi_to_hex", exc |-> r.exc, val |-> r.val]
    /\ UNCHANGED <<mappings, recent, registries, request>>

\* Color.ansi_to_cmyk(ansi).
AnsiToCmyk ==
    /\ request.op = "ansi"
    /\ LET r == ansi_to_cmyk(request.ansi)
       IN  last' = [op |-> "ansi_to_cmyk", exc |-> r.exc, val |-> r.val]
    /\ UNCHANGED <<mappings, recent, registries, request>>

\* Color.hex_to_rgb(hex_code); the caller goes on with the triple.
HexToRgb ==
    /\ request.op = "hex"
    /\ LET r == hex_to_rgb(request.hex_code)
       IN  /\ last' = [op |-> "hex_to_rgb", exc |-> r.exc, val |-> r.val]
           /\ request' = IF r.exc = "none"
                         THEN [op |-> "rgb", r |-> r.val[1], g |-> r.val[2],
                               b |-> r.val[3], origin |-> Some(request)]
                         ELSE request
    /\ UNCHANGED <<mappings, recent, registries>>

\* Color.rgb_to_hex(r, g, b); a caller that wrote the triple itself goes on
\* with the HEX code.
RgbToHex ==
    /\ request.op = "rgb"
    /\ LET r == rgb_to_hex(request.r, request.g, request.b)
       IN  /\ last' = [op |-> "rgb_to_hex", exc |-> r.exc, val |-> r.val]
           /\ request' = IF r.exc = "none" /\ request.origin = None
                         THEN [op |-> "hex", hex_code |-> r.val,
                               layer |-> Foreground, true_color |-> TRUE,
                               origin |-> Some(request)]
                         ELSE request
    /\ UNCHANGED <<mappings, recent, registries>>

\* Validate.validate_ansi(ansi).
ValidateAnsi ==
    /\ request.op = "ansi"
    /\ LET r == validate_ansi(request.ansi)
       IN  last' = [op |-> "validate_ansi", exc |-> r.exc, val |-> r.val]
    /\ UNCHANGED <<mappings, recent, registries, request>>

NextCodec ==
    \/ HexToAnsi
    \/ AnsiToRgb
    \/ AnsiToHex
    \/ AnsiToCmyk
    \/ HexToRgb
    \/ RgbToHex
    \/ ValidateAnsi

SpecCodec == InitCodec /\ [][NextCodec]_vars

\* ESC, '[', one or more digits, 'm', and nothing else: a standard-colour or
\* effect code.
DigitBody(code) ==
    /\ Len(code) >= 4
    /\ code[1] = ESC
    /\ code[2] = "["
    /\ code[Len(code)] = "m"
    /\ \A i \in 3..(Len(code) - 1) :
          code[i] \in {"0", "1", "2", "3", "4", "5", "6", "7", "8", "9"}

\* C9: for every ANSI string that passes validation and whose parameter
\* body is all digits, ansi_to_rgb, ansi_to_hex and ansi_to_cmyk raise
\* Warning and return no colour value.
C9_StandardCodeUnsupported ==
    (/\ last.op \in {"ansi_to_rgb", "ansi_to_hex", "ansi_to_cmyk"}
     /\ validate_ansi(request.ansi).exc = "none"
     /\ DigitBody(request.ansi)) =>
        /\ last.exc = "Warning"
        /\ last.val = <<>>

\* C9 witness: ansi_to_cmyk refused the standard-colour code that
\* hex_to_ansi had returned for a HEX code with true_color=False.
C9_Witness ==
    /\ last.op = "ansi_to_cmyk"
    /\ last.exc = "Warning"
    /\ request.origin # None
    /\ ~request.origin[1].true_color
    /\ DigitBody(request.ansi)

\* '#' and six hexadecimal digits of either case, and nothing else.
SixDigitHex(h) ==
    /\ Len(h) = 7
    /\ h[1] = "#"
    /\ \A i \in 2..7 :
          h[i] \in {"0", "1", "2", "3", "4", "5", "6", "7", "8", "9",
                    "a", "b", "c", "d", "e", "f", "A", "B", "C", "D", "E", "F"}

\* C10: for every valid HEX code h and either layer, ansi_to_rgb of
\* hex_to_ansi(h, layer, true_color=True) is hex_to_rgb(h), and ansi_to_hex
\* of the same code is h in upper case.
C10_TrueColorRoundTrip ==
    (/\ last.op \in {"ansi_to_rgb", "ansi_to_hex"}
     /\ request.origin # None
     /\ request.origin[1].true_color
     /\ SixDigitHex(request.origin[1].hex_code)) =>
        LET h == request.origin[1].hex_code
        IN  /\ request.ansi =
                   hex_to_ansi(h, request.origin[1].layer, TRUE).val
            /\ last.op = "ansi_to_rgb" => LastResult = hex_to_rgb(h)
            /\ last.op = "ansi_to_hex" => LastResult = Ok(Upper(h))

\* C10 witness: a Background true-colour code made from a HEX code with a
\* lower-case digit and three different components came back from
\* ansi_to_hex in upper case.
C10_Witness ==
    /\ last.op = "ansi_to_hex"
    /\ last.exc = "none"
    /\ request.origin # None
    /\ request.origin[1].true_color
    /\ request.origin[1].layer = Background
    /\ SixDigitHex(request.origin[1].hex_code)
    /\ last.val # request.origin[1].hex_code
    /\ LET rgb == hex_to_rgb(request.origin[1].hex_code).val
       IN  rgb[1] # rgb[2] /\ rgb[2] # rgb[3] /\ rgb[1] # rgb[3]

---------------------------------------------------------------------------
(* The registries as a state machine (specification SpecRegistry): colours, *)
(* effects and rules are added and removed by name.                         *)

\* The names removed: the name the add calls use, in both letter cases.
RegistryNames == {<<"x">>, <<"X">>}

\* The codes given to add_color and add_effect: a standard code, a
\* Foreground and a Background true-colour code, a malformed one, a
\* true-colour code with a component above 255, and one that a newline
\* follows.
RegistryCodes ==
    {<<ESC, "[", "9", "5", "m">>,
     <<ESC, "[", "3", "8", ";", "2", ";", "1", ";", "2", ";", "3", "m">>,
     <<ESC, "[", "4", "8", ";", "2", ";", "1", ";", "2", ";", "3", "m">>,
     <<"9", "5", "m">>,
     <<ESC, "[", "3", "8", ";", "2", ";", "3", "0", "0", ";", "0", ";", "0", "m">>,
     <<ESC, "[", "3", "8", ";", "2", ";", "1", ";", "2", ";", "3", "m", "\n">>}

\* The add_mapping calls of this specification: a rule styled with a
\* colour of TextColor, a rule whose text_color is the word 'red' and not
\* an ANSI code, and a call whose keywords are neither a str nor a list.
RegistryMapperArgs ==
    {[name |-> <<"a">>, keywords |-> [t |-> "str", v |-> Some(<<"a">>)],
      text_color |-> Some(RED), text_background_color |-> None,
      text_effect |-> None, text_case |-> Some(NONE), color_match |-> FALSE,
      ignore_case |-> FALSE],
     [name |-> <<"b">>, keywords |-> [t |-> "str", v |-> Some(<<"a">>)],
      text_color |-> Some(<<"r", "e", "d">>), text_background_color |-> None,
      text_effect |-> None, text_case |-> Some(NONE), color_match |-> FALSE,
      ignore_case |-> FALSE],
     [name |-> <<"a">>, keywords |-> [t |-> "int", v |-> <<>>],
      text_color |-> None, text_background_color |-> None,
      text_effect |-> None, text_case |-> Some(NONE), color_match |-> FALSE,
      ignore_case |-> FALSE]}

InitRegistry ==
    /\ InitCommon
    /\ true_color_ok \in BOOLEAN
    /\ request = None

\* TextColor.add_color(name, ansi_code, true_color).
TextColorAdd ==
    \E ansi_code \in RegistryCodes, true_color \in BOOLEAN :
        LET name == <<"x">>
            r == TextColor_add_color([standard |-> tc_standard, true |-> tc_true],
                                     name, ansi_code, true_color, true_color_ok)
        IN  /\ tc_standard' = r.val.standard
            /\ tc_true' = r.val.true
            /\ last' = [op |-> "TextColor.add_color", name |-> name,
                        ansi_code |-> ansi_code, true_color |-> true_color,
                        exc |-> r.exc]
            /\ UNCHANGED <<mappings, recent, bg_standard, bg_true, effects,
                           true_color_ok, request>>

\* TextColor.remove_color(name, true_color).
TextColorRemove ==
    \E name \in RegistryNames, true_color \in BOOLEAN :
        LET r == TextColor_remove_color([standard |-> tc_standard, true |-> tc_true],
                                        name, true_color)
        IN  /\ tc_standard' = r.val.standard
            /\ tc_true' = r.val.true
            /\ last' = [op |-> "TextColor.remove_color", name |-> name,
                        true_color |-> true_color, exc |-> r.exc,
                        present |-> Upper(name) \in DOMAIN
                            (IF true_color THEN tc_true ELSE tc_standard)]
            /\ UNCHANGED <<mappings, recent, bg_standard, bg_true, effects,
                           true_color_ok, request>>

\* TextBackgroundColor.add_color(name, ansi_code, true_color).
TextBackgroundColorAdd ==
    \E ansi_code \in RegistryCodes, true_color \in BOOLEAN :
        LET name == <<"x">>
            r == TextBackgroundColor_add_color(
                     [standard |-> bg_standard, true |-> bg_true],
                     name, ansi_code, true_color, true_color_ok)
        IN  /\ bg_standard' = r.val.standard
            /\ bg_true' = r.val.true
            /\ last' = [op |-> "TextBackgroundColor.add_color", name |-> name,
                        ansi_code |-> ansi_code, true_color |-> true_color,
                        exc |-> r.exc]
            /\ UNCHANGED <<mappings, recent, tc_standard, tc_true, effects,
                           true_color_ok, request>>

\* TextBackgroundColor.remove_color(name, true_color).
TextBackgroundColorRemove ==
    \E name \in RegistryNames, true_color \in BOOLEAN :
        LET r == TextBackgroundColor_remove_color(
                     [standard |-> bg_standard, true |-> bg_true],
                     name, true_color)
        IN  /\ bg_standard' = r.val.standard
            /\ bg_true' = r.val.true
            /\ last' = [op |-> "TextBackgroundColor.remove_color",
                        name |-> name, true_color |-> true_color,
                        exc |-> r.exc,
                        present |-> Upper(name) \in DOMAIN
                            (IF true_color THEN bg_true ELSE bg_standard)]
            /\ UNCHANGED <<mappings, recent, tc_standard, tc_true, effects,
                           true_color_ok, request>>

\* The names looked up: the name the add calls use, in both letter cases,
\* and a name the class bodies define, in lower case.
LookupNames == {<<"x">>, <<"X">>, <<"r", "e", "d">>}

\* TextColor.get_color(name, true_color).
TextColorGet ==
    \E name \in LookupNames, true_color \in BOOLEAN :
        LET r == TextColor_get_color([standard |-> tc_standard, true |-> tc_true],
                                     name, true_color)
        IN  /\ last' = [op |-> "TextColor.get_color", name |-> name,
                        true_color |-> true_color, exc |-> r.exc, val |-> r.val]
            /\ UNCHANGED <<mappings, recent, registries, request>>

\* TextColor.is_true_color(name).
TextColorIsTrueColor ==
    \E name \in LookupNames :
        LET r == TextColor_is_true_color([standard |-> tc_standard, true |-> tc_true],
                                         name)
        IN  /\ last' = [op |-> "TextColor.is_true_color", name |-> name,
                        exc |-> r.exc, val |-> r.val]
            /\ UNCHANGED <<mappings, recent, registries, request>>

\* TextBackgroundColor.get_color(name, true_color).
TextBackgroundColorGet ==
    \E name \in LookupNames, true_color \in BOOLEAN :
        LET r == TextBackgroundColor_get_color(
                     [standard |-> bg_standard, true |-> bg_true],
                     name, true_color)
        IN  /\ last' = [op |-> "TextBackgroundColor.get_color", name |-> name,
                        true_color |-> true_color, exc |-> r.exc, val |-> r.val]
            /\ UNCHANGED <<mappings, recent, registries, request>>

\* TextEffect.add_effect(name, ansi_code).
AddEffect ==
    \E ansi_code \in RegistryCodes :
        LET name == <<"x">>
            r == add_effect(effects, name, ansi_code)
        IN  /\ effects' = r.val
            /\ last' = [op |-> "add_effect", name |-> name, exc |-> r.exc]
            /\ UNCHANGED <<mappings, recent, tc_standard, tc_true, bg_standard,
                           bg_true, true_color_ok, request>>

\* TextEffect.remove_effect(name).
RemoveEffect ==
    \E name \in RegistryNames :
        LET r == remove_effect(effects, name)
        IN  /\ effects' = r.val
            /\ last' = [op |-> "remove_effect", name |-> name, exc |-> r.exc,
                        present |-> Upper(name) \in DOMAIN effects]
            /\ UNCHANGED <<mappings, recent, tc_standard, tc_true, bg_standard,
                           bg_true, true_color_ok, request>>

NextRegistry ==
    \/ TextColorAdd
    \/ TextColorRemove
    \/ TextBackgroundColorAdd
    \/ TextBackgroundColorRemove
    \/ TextColorGet
    \/ TextColorIsTrueColor
    \/ TextBackgroundColorGet
    \/ AddEffect
    \/ RemoveEffect
    \/ AddMappingWith(RegistryMapperArgs)
    \/ RemoveMapping

SpecRegistry == InitRegistry /\ [][NextRegistry]_vars

tables == <<mappings, tc_standard, tc_true, bg_standard, bg_true, effects>>

\* The name of a call is not a key of a dict before the call.
AbsentFrom(dict, name) == Upper(name) \notin DOMAIN dict

\* The name of a call is not the name of a rule before the call.
NoRule(name) == \A i \in 1..Len(mappings) : mappings[i].name # Upper(name)

\* A call that removes a name.
IsRemove(call) ==
    call.op \in {"remove_mapping", "TextColor.remove_color",
                 "TextBackgroundColor.remove_color", "remove_effect"}

\* Two calls that remove the same name from the same table.
SameRemoval(first, second) ==
    /\ IsRemove(first)
    /\ second.op = first.op
    /\ second.name = first.name
    /\ first.op \in {"TextColor.remove_color", "TextBackgroundColor.remove_color"}
           => second.true_color = first.true_color

\* C5: removing a name that is absent does not raise and leaves every table
\* as it was, for ColorMapper.remove_mapping, TextColor.remove_color,
\* TextBackgroundColor.remove_color and TextEffect.remove_effect; and a
\* removal that repeats the removal before it changes nothing.
C5_RemoveAbsentStep ==
    /\ IsRemove(last') => last'.exc = "none"
    /\ (last'.op = "remove_mapping" /\ NoRule(last'.name))
           => UNCHANGED tables
    /\ (/\ last'.op = "TextColor.remove_color"
        /\ AbsentFrom(IF last'.true_color THEN tc_true ELSE tc_standard,
                      last'.name))
           => UNCHANGED tables
    /\ (/\ last'.op = "TextBackgroundColor.remove_color"
        /\ AbsentFrom(IF last'.true_color THEN bg_true ELSE bg_standard,
                      last'.name))
           => UNCHANGED tables
    /\ (last'.op = "remove_effect" /\ AbsentFrom(effects, last'.name))
           => UNCHANGED tables
    /\ SameRemoval(last, last') => UNCHANGED tables

C5_RemoveAbsentIsNoOp == [][C5_RemoveAbsentStep]_vars

\* C5 witness: a name that is in the standard table of TextBackgroundColor
\* and not in its true-colour table was removed from the true-colour table
\* without an error, and is still in the standard table.
C5_Witness ==
    /\ last.op = "TextBackgroundColor.remove_color"
    /\ last.true_color
    /\ ~last.present
    /\ last.exc = "none"
    /\ last.name = <<"x">>
    /\ Upper(last.name) \in DOMAIN bg_standard

---------------------------------------------------------------------------
(* Claims about the codec's round trips and validation (SpecCodec). *)

\* The request the caller made before the one it is making now.
Before == request.origin[1]

\* C11: for all r, g, b in 0..255, hex_to_rgb(rgb_to_hex(r, g, b)) is
\* (r, g, b); and for every valid HEX string h of either letter case,
\* rgb_to_hex(*hex_to_rgb(h)) is h in upper case, '#' followed by six
\* upper-case hexadecimal digits.
C11_HexRgbRoundTrip ==
    /\ (/\ last.op = "hex_to_rgb"
        /\ request.op = "rgb"
        /\ Before.origin # None
        /\ \A x \in {Before.origin[1].r, Before.origin[1].g, Before.origin[1].b} :
              x \in 0..255) =>
           /\ Before.hex_code =
                  rgb_to_hex(Before.origin[1].r, Before.origin[1].g,
                             Before.origin[1].b).val
           /\ LastResult =
                  Ok(<<Before.origin[1].r, Before.origin[1].g, Before.origin[1].b>>)
    /\ ~(last.op = "hex_to_rgb" /\ request.op = "hex" /\ request.origin # None)
    /\ (/\ last.op = "rgb_to_hex"
        /\ request.op = "rgb"
        /\ request.origin # None
        /\ SixDigitHex(Before.hex_code)) =>
           /\ <<request.r, request.g, request.b>> = hex_to_rgb(Before.hex_code).val
           /\ LastResult = Ok(Upper(Before.hex_code))
           /\ Len(last.val) = 7
           /\ last.val[1] = "#"
           /\ \A i \in 2..7 :
                 last.val[i] \in {"0", "1", "2", "3", "4", "5", "6", "7", "8",
                                  "9", "A", "B", "C", "D", "E", "F"}

\* C11 witness: a triple with a component below 16 came back from
\* hex_to_rgb after rgb_to_hex.
C11_Witness ==
    /\ last.op = "hex_to_rgb"
    /\ last.exc = "none"
    /\ request.op = "rgb"
    /\ Before.origin # None
    /\ Before.origin[1].op = "rgb"
    /\ last.val = <<9, 255, 16>>

\* The 16 swatches in their fixed order.
Swatches ==
    <<<<"0", "0", "0", "0", "0", "0">>, <<"8", "0", "0", "0", "0", "0">>,
      <<"0", "0", "8", "0", "0", "0">>, <<"8", "0", "8", "0", "0", "0">>,
      <<"0", "0", "0", "0", "8", "0">>, <<"8", "0", "0", "0", "8", "0">>,
      <<"0", "0", "8", "0", "8", "0">>, <<"C", "0", "C", "0", "C", "0">>,
      <<"8", "0", "8", "0", "8", "0">>, <<"F", "F", "0", "0", "0", "0">>,
      <<"0", "0", "F", "F", "0", "0">>, <<"F", "F", "F", "F", "0", "0">>,
      <<"0", "0", "0", "0", "F", "F">>, <<"F", "F", "0", "0", "F", "F">>,
      <<"0", "0", "F", "F", "F", "F">>, <<"F", "F", "F", "F", "F", "F">>>>

\* |dr| + |dg| + |db| between a HEX code and the swatch of an index (from 0).
Manhattan(h, index) ==
    LET a == hex_to_rgb(h).val
        b == hex_to_rgb(<<"#">> \o Swatches[index + 1]).val
        gap(x, y) == IF x < y THEN y - x ELSE x - y
    IN  gap(a[1], b[1]) + gap(a[2], b[2]) + gap(a[3], b[3])

\* C12: with true_color=False hex_to_ansi takes, among the 16 swatches in
\* their fixed order, the one at minimal Manhattan distance from the input,
\* the first of them when several are, and returns
\* ESC[<44 + index + layer value>m; #FFFFFF gives ESC[97m for Foreground
\* and ESC[107m for Background.
C12_NearestSwatch ==
    (/\ last.op = "hex_to_ansi"
     /\ request.op = "ansi"
     /\ ~Before.true_color
     /\ SixDigitHex(Before.hex_code)) =>
        /\ \E index \in 0..15 :
              /\ \A other \in 0..15 :
                    Manhattan(Before.hex_code, index)
                        <= Manhattan(Before.hex_code, other)
              /\ \A earlier \in 0..(index - 1) :
                    Manhattan(Before.hex_code, earlier)
                        > Manhattan(Before.hex_code, index)
              /\ LastResult =
                     Ok(<<ESC, "[">> \o Dec(44 + index + Before.layer) \o <<"m">>)
        /\ Upper(Before.hex_code) = <<"#", "F", "F", "F", "F", "F", "F">> =>
              last.val = IF Before.layer = 38 THEN <<ESC, "[", "9", "7", "m">>
                         ELSE <<ESC, "[", "1", "0", "7", "m">>

\* C12 witness: a HEX code at the same minimal distance from two swatches
\* was given the code of the first of them.
C12_Witness ==
    /\ last.op = "hex_to_ansi"
    /\ last.exc = "none"
    /\ request.op = "ansi"
    /\ ~Before.true_color
    /\ SixDigitHex(Before.hex_code)
    /\ \E first \in 0..15, second \in 0..15 :
          /\ first < second
          /\ Manhattan(Before.hex_code, first) = Manhattan(Before.hex_code, second)
          /\ \A other \in 0..15 :
                Manhattan(Before.hex_code, first) <= Manhattan(Before.hex_code, other)
          /\ last.val = <<ESC, "[">> \o Dec(44 + first + Before.layer) \o <<"m">>

\* The whole string is ESC, '[', one or more characters of [0-9;], 'm',
\* and the body between '[' and 'm' is all digits or begins with '38;2;' or
\* '48;2;'.
WellFormedAnsi(s) ==
    /\ Len(s) >= 4
    /\ s[1] = ESC
    /\ s[2] = "["
    /\ s[Len(s)] = "m"
    /\ \A i \in 3..(Len(s) - 1) :
          s[i] \in {"0", "1", "2", "3", "4", "5", "6", "7", "8", "9", ";"}
    /\ \/ \A i \in 3..(Len(s) - 1) : s[i] # ";"
       \/ /\ Len(s) >= 8
          /\ SubSeq(s, 3, 7) \in {<<"3", "8", ";", "2", ";">>,
                                  <<"4", "8", ";", "2", ";">>}

\* C13: validate_ansi accepts a string exactly when the whole string is
\* ESC, '[', one or more characters of [0-9;], 'm' with a body that is all
\* digits or begins with '38;2;' or '48;2;', and rejects every other string
\* with ValueError.
C13_ValidateAnsiExact ==
    last.op = "validate_ansi" =>
        IF WellFormedAnsi(request.ansi) THEN last.exc = "none"
        ELSE last.exc = "ValueError"


\* The HEX code the last hex_to_rgb or hex_to_ansi call was given, and the
\* components the last rgb_to_hex call was given: a call that succeeds
\* replaces the request by the one made with its result.
HexGiven == IF request.op = "hex" THEN request.hex_code ELSE Before.hex_code

RgbGiven ==
    IF request.op = "rgb" THEN <<request.r, request.g, request.b>>
    ELSE <<Before.r, Before.g, Before.b>>

\* C20: hex_to_rgb and hex_to_ansi fail with ValueError for every string
\* that is not, as a whole, '#' and six hexadecimal digits of either case,
\* and rgb_to_hex fails with ValueError unless r, g and b are in 0..255; a
\* call that is given a valid input does not fail.
C20_CodecInputValidation ==
    /\ last.op \in {"hex_to_rgb", "hex_to_ansi"} =>
           (last.exc = "ValueError" <=> ~SixDigitHex(HexGiven))
    /\ last.op = "rgb_to_hex" =>
           (last.exc = "ValueError" <=> \E i \in 1..3 : RgbGiven[i] \notin 0..255)

---------------------------------------------------------------------------
(* The conversions from RGB and CMYK as calls on one colour value          *)
(* (specification SpecConvert).                                            *)

\* The CMYK values given to the codec, as fractions: 0, 1/4, 1/2 and 1,
\* which floats hold exactly, and -1/4 and 5/4 outside [0, 1].
CmykSample ==
    {[n |-> 0, d |-> 1], [n |-> 1, d |-> 4], [n |-> 1, d |-> 2],
     [n |-> 1, d |-> 1], [n |-> -1, d |-> 4], [n |-> 5, d |-> 4]}

CmykRequests ==
    [op : {"cmyk"}, c : CmykSample, m : CmykSample, y : CmykSample,
     k : CmykSample, origin : {None}]

InitConvert ==
    /\ InitCommon
    /\ true_color_ok = TRUE
    /\ request \in RgbRequests \cup CmykRequests

\* Color.rgb_to_ansi(r, g, b, layer, true_color).
RgbToAnsi ==
    /\ request.op = "rgb"
    /\ \E layer \in {Foreground, Background}, true_color \in BOOLEAN :
          LET r == rgb_to_ansi(request.r, request.g, request.b, layer, true_color)
          IN  last' = [op |-> "rgb_to_ansi", layer |-> layer,
                       true_color |-> true_color, exc |-> r.exc, val |-> r.val]
    /\ UNCHANGED <<mappings, recent, registries, request>>

\* Color.cmyk_to_rgb(c, m, y, k).
CmykToRgb ==
    /\ request.op = "cmyk"
    /\ LET r == cmyk_to_rgb(request.c, request.m, request.y, request.k)
       IN  last' = [op |-> "cmyk_to_rgb", exc |-> r.exc, val |-> r.val]
    /\ UNCHANGED <<mappings, recent, registries, request>>

\* Color.cmyk_to_ansi(c, m, y, k, layer, true_color).
CmykToAnsi ==
    /\ request.op = "cmyk"
    /\ \E layer \in {Foreground, Background}, true_color \in BOOLEAN :
          LET r == cmyk_to_ansi(request.c, request.m, request.y, request.k,
                                layer, true_color)
          IN  last' = [op |-> "cmyk_to_ansi", layer |-> layer,
                       true_color |-> true_color, exc |-> r.exc, val |-> r.val]
    /\ UNCHANGED <<mappings, recent, registries, request>>

\* Color.rgb_to_cmyk(r, g, b).
RgbToCmyk ==
    /\ request.op = "rgb"
    /\ LET r == rgb_to_cmyk(request.r, request.g, request.b)
       IN  last' = [op |-> "rgb_to_cmyk", exc |-> r.exc, val |-> r.val]
    /\ UNCHANGED <<mappings, recent, registries, request>>

NextConvert ==
    \/ RgbToCmyk
    \/ RgbToAnsi
    \/ CmykToRgb
    \/ CmykToAnsi

SpecConvert == InitConvert /\ [][NextConvert]_vars

\* The components of the request are valid RGB, or valid CMYK.
ValidRgb == \A x \in {request.r, request.g, request.b} : x \in 0..255

ValidCmyk ==
    \A x \in {request.c, request.m, request.y, request.k} :
        0 <= x.n /\ x.n <= x.d

\* C23: rgb_to_ansi and cmyk_to_ansi mirror hex_to_ansi: for valid r, g, b,
\* each layer and both values of true_color, rgb_to_ansi(r, g, b, layer,
\* true_color) is hex_to_ansi(rgb_to_hex(r, g, b), layer, true_color); and
\* for valid c, m, y, k, cmyk_to_ansi(c, m, y, k, layer, true_color) is
\* rgb_to_ansi(*cmyk_to_rgb(c, m, y, k), layer, true_color).
C23_AnsiMirrors ==
    /\ (last.op = "rgb_to_ansi" /\ ValidRgb) =>
           /\ last.exc = "none"
           /\ LastResult =
                  hex_to_ansi(rgb_to_hex(request.r, request.g, request.b).val,
                              last.layer, last.true_color)
    /\ (last.op = "cmyk_to_ansi" /\ ValidCmyk) =>
           LET rgb == cmyk_to_rgb(request.c, request.m, request.y, request.k).val
           IN  /\ last.exc = "none"
               /\ LastResult =
                      hex_to_ansi(rgb_to_hex(rgb[1], rgb[2], rgb[3]).val,
                                  last.layer, last.true_color)
               /\ LastResult =
                      rgb_to_ansi(rgb[1], rgb[2], rgb[3], last.layer, last.true_color)

\* C23 witness: cmyk_to_ansi gave the standard-colour code of the
\* Background layer for a colour with three different components.
C23_Witness ==
    /\ last.op = "cmyk_to_ansi"
    /\ ~last.true_color
    /\ last.layer = Background
    /\ last.exc = "none"
    /\ ValidCmyk
    /\ LET rgb == cmyk_to_rgb(request.c, request.m, request.y, request.k).val
       IN  rgb[1] # rgb[2] /\ rgb[2] # rgb[3] /\ rgb[1] # rgb[3]

\* A fraction is 0, is 1, lies in [0, 1]; two fractions are equal.
IsZero(x) == x.n = 0

IsOne(x) == x.n = x.d

InUnit(x) == x.d > 0 /\ 0 <= x.n /\ x.n <= x.d

SameFraction(x, y) == x.n * y.d = y.n * x.d

\* C24: rgb_to_cmyk never divides by zero: (0, 0, 0) gives (0, 0, 0, 1);
\* for every other valid (r, g, b) the key k is min(1 - r/255, 1 - g/255,
\* 1 - b/255) and is less than 1, c, m, y and k lie in [0, 1] and one of
\* c, m, y is 0; and (255, 255, 255) gives (0, 0, 0, 0).
C24_CmykWithoutDivisionByZero ==
    (last.op = "rgb_to_cmyk" /\ ValidRgb) =>
        /\ last.exc = "none"
        /\ Len(last.val) = 4
        /\ \A i \in 1..4 : InUnit(last.val[i])
        /\ IF <<request.r, request.g, request.b>> = <<0, 0, 0>>
           THEN /\ \A i \in 1..3 : IsZero(last.val[i])
                /\ IsOne(last.val[4])
           ELSE /\ ~IsOne(last.val[4])
                /\ \E x \in {request.r, request.g, request.b} :
                      /\ SameFraction(last.val[4], [n |-> 255 - x, d |-> 255])
                      /\ \A z \in {request.r, request.g, request.b} : z <= x
                /\ \E i \in 1..3 : IsZero(last.val[i])
        /\ <<request.r, request.g, request.b>> = <<255, 255, 255>>
               => \A i \in 1..4 : IsZero(last.val[i])

\* C24 witness: a colour with three different components, none of them 0
\* or 255, was converted.
C24_Witness ==
    /\ last.op = "rgb_to_cmyk"
    /\ last.exc = "none"
    /\ ValidRgb
    /\ {request.r, request.g, request.b} \cap {0, 255} = {}
    /\ Cardinality({request.r, request.g, request.b}) = 3
    /\ ~IsZero(last.val[4])

---------------------------------------------------------------------------
(* Claims about what the registries and the rule table accept            *)
(* (SpecRegistry).                                                        *)

\* A style of a rule is absent or a string validate_ansi accepts.
StyleOk(style) == style = None \/ validate_ansi(style[1]).exc = "none"

\* Every code of a dict is a string validate_ansi accepts.
CodesOk(dict) == \A name \in DOMAIN dict : validate_ansi(dict[name]).exc = "none"

\* C14: an operation that takes an ANSI string from the caller rejects one
\* that fails validate_ansi before storing it: every code in the tables of
\* TextColor, TextBackgroundColor and TextEffect passes validate_ansi, and
\* so do the text_color, text_background_color and text_effect of every
\* rule stored in the table of the ColorMapper.
C14_MalformedAnsiNeverStored ==
    /\ CodesOk(tc_standard) /\ CodesOk(tc_true)
    /\ CodesOk(bg_standard) /\ CodesOk(bg_true)
    /\ CodesOk(effects)
    /\ \A i \in 1..Len(mappings) :
          /\ StyleOk(mappings[i].color_mapping.text_color)
          /\ StyleOk(mappings[i].color_mapping.text_background_color)
          /\ StyleOk(mappings[i].color_mapping.text_effect)

\* A call that adds a name.
IsAdd(call) ==
    call.op \in {"add_mapping", "TextColor.add_color",
                 "TextBackgroundColor.add_color", "add_effect"}

\* C17: registry mutation is validate-then-commit: when add_color of
\* TextColor or TextBackgroundColor, add_effect or add_mapping fails, for
\* whatever reason, every registry table and the rule table are as they
\* were before the call.
C17_FailedAddStep ==
    (IsAdd(last') /\ last'.exc # "none") => UNCHANGED tables

C17_ValidateThenCommit == [][C17_FailedAddStep]_vars

\* C17 witness: after a standard colour was added to TextColor under the
\* name X, an add_color of a true colour failed with ValueError on a
\* terminal that supports true colour, and X is in the standard table only.
C17_Witness ==
    /\ last.op = "TextColor.add_color"
    /\ last.true_color
    /\ last.exc = "ValueError"
    /\ true_color_ok
    /\ <<"X">> \in DOMAIN tc_standard
    /\ <<"X">> \notin DOMAIN tc_true
    /\ Len(mappings) = 2

\* ESC '[' layer ';2;' r ';' g ';' b 'm' with r, g, b decimal numbers in
\* 0..255, and nothing else.
TrueColourForm(layer, code) ==
    LET prefix == <<ESC, "[">> \o Dec(layer) \o <<";", "2", ";">>
        parts == Split(SubSeq(code, Len(prefix) + 1, Len(code) - 1))
    IN  /\ StartsWith(code, prefix)
        /\ code[Len(code)] = "m"
        /\ Len(parts) = 3
        /\ \A i \in 1..3 : IsDigits(parts[i]) /\ DecValue(parts[i]) \in 0..255

\* C18: every entry of the true-colour table of TextColor is of the form
\* ESC[38;2;r;g;bm and every entry of the true-colour table of
\* TextBackgroundColor of the form ESC[48;2;r;g;bm, with r, g, b in 0..255;
\* every entry of the standard tables and of the effect table is ESC '['
\* digits 'm'; and an add_color of a true colour (a code validate_ansi
\* accepts) on a terminal without true-colour support fails with Warning.
\* That it then adds nothing is the unchanged-tables step of C17.
C18_TableForms ==
    /\ \A name \in DOMAIN tc_true : TrueColourForm(Foreground, tc_true[name])
    /\ \A name \in DOMAIN bg_true : TrueColourForm(Background, bg_true[name])
    /\ \A name \in DOMAIN tc_standard : DigitBody(tc_standard[name])
    /\ \A name \in DOMAIN bg_standard : DigitBody(bg_standard[name])
    /\ \A name \in DOMAIN effects : DigitBody(effects[name])
    /\ (/\ last.op \in {"TextColor.add_color", "TextBackgroundColor.add_color"}
        /\ last.true_color
        /\ ~true_color_ok
        /\ validate_ansi(last.ansi_code).exc = "none")
           => (/\ last.exc = "Warning"
               /\ tc_true = TextColor_true_colors
               /\ bg_true = TextBackgroundColor_true_colors)

\* C18 witness: a true colour was added to TextBackgroundColor under the
\* name X, which is also a standard colour of TextColor and an effect.
C18_Witness ==
    /\ last.op = "TextBackgroundColor.add_color"
    /\ last.true_color
    /\ last.exc = "none"
    /\ <<"X">> \in DOMAIN bg_true
    /\ <<"X">> \in DOMAIN tc_standard
    /\ <<"X">> \in DOMAIN effects

\* Two dicts are the same but for one key.
SameButFor(before, after, key) ==
    /\ DOMAIN before \ {key} = DOMAIN after \ {key}
    /\ \A k \in DOMAIN before \ {key} : after[k] = before[k]

\* What one call of a class does to its two tables.  A successful add puts
\* the code under the upper-cased name in the table true_color selects, a
\* remove takes that key out of it, both leave every other key and the
\* other table alone, and every other call leaves both tables alone.
ClassStep(class, call, standard_before, standard_after, true_before, true_after) ==
    LET key == Upper(call.name)
        added == call.op = class \o ".add_color" /\ call.exc = "none"
        removed == call.op = class \o ".remove_color"
    IN  /\ (added /\ call.true_color) =>
               /\ standard_after = standard_before
               /\ key \in DOMAIN true_after /\ true_after[key] = call.ansi_code
               /\ SameButFor(true_before, true_after, key)
        /\ (added /\ ~call.true_color) =>
               /\ true_after = true_before
               /\ key \in DOMAIN standard_after
               /\ standard_after[key] = call.ansi_code
               /\ SameButFor(standard_before, standard_after, key)
        /\ (removed /\ call.true_color) =>
               /\ standard_after = standard_before
               /\ key \notin DOMAIN true_after
               /\ SameButFor(true_before, true_after, key)
        /\ (removed /\ ~call.true_color) =>
               /\ true_after = true_before
               /\ key \notin DOMAIN standard_after
               /\ SameButFor(standard_before, standard_after, key)
        /\ (~added /\ ~removed) =>
               standard_after = standard_before /\ true_after = true_before

\* What get_color answers: the code under the upper-cased name in the table
\* true_color selects, ValueError when the name is not in it.
Lookup(call, standard, true) ==
    LET dict == IF call.true_color THEN true ELSE standard
    IN  IF Upper(call.name) \in DOMAIN dict
        THEN call.exc = "none" /\ call.val = dict[Upper(call.name)]
        ELSE call.exc = "ValueError"

\* Two calls name the same key of the same table of the same class.
SameKey(first, second, class) ==
    /\ first.op \in {class \o ".add_color", class \o ".remove_color"}
    /\ second.op = class \o ".get_color"
    /\ Upper(second.name) = Upper(first.name)
    /\ second.true_color = first.true_color

\* C19: the registries of named colours are keyed by the upper-cased name
\* and the standard and true-colour tables of a class are independent:
\* get_color(name, flag) returns the code most recently added under the
\* upper-cased name in the table flag selects, and raises ValueError when
\* there is none or it was removed; an add or a remove with one flag never
\* changes the table of the other flag; and is_true_color is False for a
\* name that is only in the standard table.
C19_RegistryStep ==
    /\ ClassStep("TextColor", last', tc_standard, tc_standard', tc_true, tc_true')
    /\ ClassStep("TextBackgroundColor", last', bg_standard, bg_standard',
                 bg_true, bg_true')
    /\ last'.op = "TextColor.get_color" => Lookup(last', tc_standard, tc_true)
    /\ last'.op = "TextBackgroundColor.get_color"
           => Lookup(last', bg_standard, bg_true)
    /\ \A class \in {"TextColor", "TextBackgroundColor"} :
           SameKey(last, last', class) =>
               IF last.op = class \o ".add_color" /\ last.exc = "none"
               THEN last'.exc = "none" /\ last'.val = last.ansi_code
               ELSE last.op = class \o ".remove_color" => last'.exc = "ValueError"
    /\ last'.op = "TextColor.is_true_color" =>
           /\ last'.exc = "none"
           /\ last'.val = (Upper(last'.name) \in DOMAIN tc_true)

C19_CaseInsensitiveIndependentTables == [][C19_RegistryStep]_vars

\* C19 witness: the name x was added to TextColor as a standard colour
\* only, and is_true_color('x') answered False.
C19_Witness ==
    /\ last.op = "TextColor.is_true_color"
    /\ last.name = <<"x">>
    /\ last.val = FALSE
    /\ <<"X">> \in DOMAIN tc_standard
    /\ <<"X">> \notin DOMAIN tc_true
    /\ true_color_ok

---------------------------------------------------------------------------
(* Claims about the errors of the evaluation modes (SpecEngine). *)

\* C15: a style descriptor that is not valid, such as a text_case of None,
\* is rejected before any matching: the call fails whether or not the
\* pattern matches the message.
C15_InvalidStyleRejectedBeforeMatching ==
    (last.op \in {"plain", "by_regex"} /\ request.text_case = None)
        => last.exc # "none"

---------------------------------------------------------------------------
(* Claims about the errors of rule-table mode (Spec). *)

\* Some keyword of some rule of the table is a pattern re refuses.
MalformedKeyword ==
    \E i \in 1..Len(mappings) : \E k \in 1..Len(mappings[i].keywords) :
        ~re_compiles(mappings[i].keywords[k])

\* C16: a malformed regular expression is fatal: when any keyword of any
\* rule of the table is not a valid pattern, the evaluation of a message
\* with that table fails, whatever the message and the other keywords.
C16_MalformedKeywordIsFatal ==
    (last.op = "by_mappings" /\ MalformedKeyword) => last.exc # "none"

---------------------------------------------------------------------------
(* The case transformer as calls on one message (specification SpecCase). *)

\* The messages: short ones over a letter of each case, a digit, '_', '-'
\* and the space, and the message of the tests.
TestMessage ==
    <<"t", "h", "i", "s", " ", "i", "s", " ", "a", " ", "T", "E", "S", "T", " ",
      "m", "e", "s", "s", "a", "g", "e", "_", "-", "2", "4", "#", "@">>

CaseMessages == SeqUpTo({"a", "T", "2", "_", "-", " "}, MaxLen) \cup {TestMessage}

\* The text_case arguments: the ten constants, ints that are none of them,
\* and None.
CaseValues ==
    EngineCases \cup {Some(-1), Some(5), Some(91), Some(100)}

CaseRequests == [op : {"case"}, message : CaseMessages, text_case : CaseValues]

InitCase ==
    /\ InitCommon
    /\ true_color_ok = TRUE
    /\ request \in CaseRequests

\* TextCase.convert_text(message, text_case).
ConvertText ==
    /\ request.op = "case"
    /\ LET r == convert_text(request.message, request.text_case)
       IN  last' = [op |-> "convert_text", exc |-> r.exc, val |-> r.val]
    /\ UNCHANGED <<mappings, recent, registries, request>>

NextCase == ConvertText

SpecCase == InitCase /\ [][NextCase]_vars

\* A message read character by character: each run of characters outside
\* keep becomes one space.
RECURSIVE Spaced(_, _, _)
Spaced(s, i, keep) ==
    IF i > Len(s) THEN <<>>
    ELSE IF s[i] \in keep THEN <<s[i]>> \o Spaced(s, i + 1, keep)
    ELSE IF i > 1 /\ s[i - 1] \notin keep THEN Spaced(s, i + 1, keep)
    ELSE <<" ">> \o Spaced(s, i + 1, keep)

\* str.split() on spaces: the tokens between them, none of them empty.
RECURSIVE Tokens(_, _, _)
Tokens(s, i, token) ==
    IF i > Len(s) THEN IF token = <<>> THEN <<>> ELSE <<token>>
    ELSE IF s[i] = " "
    THEN (IF token = <<>> THEN <<>> ELSE <<token>>) \o Tokens(s, i + 1, <<>>)
    ELSE Tokens(s, i + 1, Append(token, s[i]))

\* The tokens of a message for a class of kept characters.
TokensOf(message, keep) == Tokens(Spaced(message, 1, keep), 1, <<>>)

\* First letter upper, the others lower.
FirstUpper(token) ==
    [i \in 1..Len(token) |-> IF i = 1 THEN UpperOf[token[i]] ELSE LowerOf[token[i]]]

\* The tokens put one after the other with a separator between them.
RECURSIVE Joined(_, _, _)
Joined(tokens, i, sep) ==
    IF i > Len(tokens) THEN <<>>
    ELSE (IF i > 1 THEN sep ELSE <<>>) \o tokens[i] \o Joined(tokens, i + 1, sep)

\* The four results the tests expect for TestMessage.
Expected(text_case) ==
    CASE text_case = CAMEL_CASE ->
             <<"t", "h", "i", "s", "I", "s", "A", "T", "e", "s", "t",
               "M", "e", "s", "s", "a", "g", "e", "_", "2", "4">>
      [] text_case = PASCAL_CASE ->
             <<"T", "h", "i", "s", "I", "s", "A", "T", "e", "s", "t",
               "M", "e", "s", "s", "a", "g", "e", "2", "4">>
      [] text_case = SNAKE_CASE ->
             <<"t", "h", "i", "s", "_", "i", "s", "_", "a", "_", "t", "e", "s", "t",
               "_", "m", "e", "s", "s", "a", "g", "e", "_", "2", "4">>
      [] text_case = KEBAB_CASE ->
             <<"t", "h", "i", "s", "-", "i", "s", "-", "a", "-", "t", "e", "s", "t",
               "-", "m", "e", "s", "s", "a", "g", "e", "-", "2", "4">>

\* C21: for CAMEL, PASCAL, SNAKE and KEBAB case convert_text replaces each
\* run of characters outside [A-Za-z0-9_] (camel) or [A-Za-z0-9] (the other
\* three) by one space, splits on whitespace and joins the tokens: camel
\* lower-cases the first token and capitalizes the others, pascal
\* capitalizes every token, both without a separator, snake and kebab
\* lower-case every token and join with '_' and '-'; the message of the
\* tests gives the four strings the tests expect.
C21_TokenCases ==
    (last.op = "convert_text" /\ request.text_case # None
     /\ request.text_case[1] \in {CAMEL_CASE, PASCAL_CASE, SNAKE_CASE, KEBAB_CASE})
        =>
        LET text_case == request.text_case[1]
            tokens == TokensOf(request.message,
                               IF text_case = CAMEL_CASE THEN Word ELSE Alnum)
            cased == [i \in 1..Len(tokens) |->
                        IF text_case \in {SNAKE_CASE, KEBAB_CASE}
                           \/ (text_case = CAMEL_CASE /\ i = 1)
                        THEN Lower(tokens[i])
                        ELSE FirstUpper(tokens[i])]
            sep == IF text_case = SNAKE_CASE THEN <<"_">>
                   ELSE IF text_case = KEBAB_CASE THEN <<"-">>
                   ELSE <<>>
        IN  LastResult = Ok(Joined(cased, 1, sep))

C21_TestMessage ==
    (last.op = "convert_text" /\ request.message = TestMessage
     /\ request.text_case # None
     /\ request.text_case[1] \in {CAMEL_CASE, PASCAL_CASE, SNAKE_CASE, KEBAB_CASE})
        => LastResult = Ok(Expected(request.text_case[1]))

C21_CamelPascalSnakeKebab == C21_TokenCases /\ C21_TestMessage

\* C21 witness: the message of the tests was converted to camel case, and
\* the '_' that ends its fifth word is in the result.
C21_Witness ==
    /\ last.op = "convert_text"
    /\ request.message = TestMessage
    /\ request.text_case = Some(CAMEL_CASE)
    /\ last.exc = "none"
    /\ "_" \in Range(last.val)

\* The nine constants of TextCase that change a message.
Transforming ==
    {NO_CAPS, ALL_CAPS, SMALL_CAPS, TITLE_CASE, SENTENCE_CASE, PASCAL_CASE,
     CAMEL_CASE, SNAKE_CASE, KEBAB_CASE}

\* C22: the case transformer is total: for every message and every case
\* value (an int) convert_text returns a string and does not fail, and for
\* NONE and for every int that is none of the ten constants it returns the
\* message as it is.
C22_TransformerTotal ==
    (last.op = "convert_text" /\ request.text_case # None) =>
        /\ last.exc = "none"
        /\ DOMAIN last.val = 1..Len(last.val)
        /\ \A i \in 1..Len(last.val) : last.val[i] \in Chars
        /\ request.text_case[1] \notin Transforming => last.val = request.message

\* C22 witness: a message with letters of both cases and a separator was
\* converted with the int 91, which is no constant of TextCase.
C22_Witness ==
    /\ last.op = "convert_text"
    /\ request.text_case = Some(91)
    /\ request.message = <<"a", "-", "T">>
    /\ last.exc = "none"
    /\ last.val = request.message

---------------------------------------------------------------------------
(* echo as calls on one message (specification SpecEcho).  An argument of  *)
(* echo is a record a: a.mappings is None or Some(table), the table of the *)
(* ColorMapper given; a.ill_typed names the arguments whose value is not   *)
(* of the type echo asks for.  The outcome has a third field, printed: the *)
(* strings handed to print during the call.                                *)

\* The outcome of a call that printed s and returned, and of one that raised.
Printed(s) == [exc |-> "none", val |-> None, printed |-> <<s>>]

Failed(e) == [exc |-> e, val |-> None, printed |-> <<>>]

\* The type checks at the head of echo.
echo_types(a) ==
    IF a.mappings # None /\ "mappings" \in a.ill_typed THEN "TypeError"
    ELSE IF /\ a.mappings = None
            /\ a.regex_pattern # None
            /\ a.ill_typed \cap {"regex_pattern", "color_match", "ignore_case"} # {}
    THEN "TypeError"
    ELSE IF /\ a.mappings = None
            /\ a.ill_typed \cap {"text_color", "text_background_color",
                                 "text_effect", "text_case"} # {}
    THEN "TypeError"
    ELSE "none"

\* The mode echo dispatches to on a terminal that supports colorization.
echo_mode(a) ==
    IF a.mappings # None
    THEN _get_colorized_message_by_mappings(a.message, a.mappings[1])
    ELSE IF a.regex_pattern # None
    THEN _get_colorized_message_by_regex_pattern(a.message, a.regex_pattern[1],
             a.text_color, a.text_background_color, a.text_effect, a.text_case,
             a.color_match, a.ignore_case)
    ELSE _get_colorized_message(a.message, a.text_color,
             a.text_background_color, a.text_effect, a.text_case)

\* print(colorized_message) when the mode returned, nothing when it raised.
PrintResult(r) == IF r.exc # "none" THEN Failed(r.exc) ELSE Printed(r.val)

\* An echo that styles the message whatever the capability probe reports.
echo_styling_always(a, supported) ==
    IF echo_types(a) = "TypeError" THEN Failed("TypeError")
    ELSE PrintResult(echo_mode(a))

\* echo(message, regex_pattern, mappings, ...) when
\* _is_colorization_supported() reports supported.
echo(a, supported) ==
    IF echo_types(a) = "TypeError" THEN Failed("TypeError")
    ELSE IF ~supported THEN Printed(a.message)
    ELSE PrintResult(echo_mode(a))

\* The ColorMapper objects given to echo: an empty one, and one to which a
\* rule 'a' was added, with one keyword or with a pattern re refuses and a
\* keyword, colouring the match or upper-casing the message, matching case
\* or not.
EchoMappers ==
    {<<>>} \cup
    {add_mapping(<<>>,
         [name |-> <<"a">>, keywords |-> [t |-> "list", v |-> k],
          text_color |-> st[1], text_background_color |-> None,
          text_effect |-> None, text_case |-> st[2], color_match |-> st[3],
          ignore_case |-> ic]).val :
        k \in {<<<<"a">>>>, <<<<"[">>, <<"m">>>>},
        st \in {<<Some(RED), Some(NONE), TRUE>>, <<None, Some(ALL_CAPS), FALSE>>},
        ic \in BOOLEAN}

\* The messages given to echo.
EchoMessages == {<<>>, <<"m">>, <<"A">>, <<"a", "m">>}

\* The arguments found ill typed, at most one in a call.
IllTyped ==
    {{}, {"mappings"}, {"regex_pattern"}, {"color_match"}, {"text_color"}}

\* The calls of echo with the pattern, the mapper and the colour drawn from
\* the sets given.
EchoCalls(patterns, mappers, colours, ill_typed) ==
    [op : {"echo"}, message : EchoMessages, regex_pattern : patterns,
     mappings : mappers, text_color : colours,
     text_background_color : {None}, text_effect : {None},
     text_case : {None, Some(NONE), Some(ALL_CAPS)},
     color_match : BOOLEAN, ignore_case : BOOLEAN, ill_typed : ill_typed]

\* The calls of echo.  An ill-typed argument is not None.
EchoRequests ==
    LET patterns == {Some(<<"a">>), Some(<<"[">>)}
        mappers == {Some(t) : t \in EchoMappers}
        colours == {Some(RED)}
    IN  EchoCalls({None} \cup patterns, {None} \cup mappers, {None} \cup colours,
                  {{}, {"color_match"}})
        \cup EchoCalls({None} \cup patterns, mappers, {None} \cup colours,
                       {{"mappings"}})
        \cup EchoCalls(patterns, {None} \cup mappers, {None} \cup colours,
                       {{"regex_pattern"}})
        \cup EchoCalls({None} \cup patterns, {None} \cup mappers, colours,
                       {{"text_color"}})

InitEcho ==
    /\ InitCommon
    /\ true_color_ok = TRUE
    /\ request \in EchoRequests

\* The record of an echo call: the answer of the probe and the outcome.
EchoCall(supported, r) ==
    [op |-> "echo", supported |-> supported, exc |-> r.exc, printed |-> r.printed]

\* echo(message, ...): the capability probe reports either answer.
Echo ==
    /\ request.op = "echo"
    /\ \E supported \in BOOLEAN :
          last' = EchoCall(supported, echo(request, supported))
    /\ UNCHANGED <<mappings, recent, registries, request>>

NextEcho == Echo

SpecEcho == InitEcho /\ [][NextEcho]_vars

---------------------------------------------------------------------------
(* Claims about echo (SpecEcho). *)

\* The mode of the call: by what the caller supplied.
ModeOf(a) ==
    IF a.mappings # None THEN "mappings"
    ELSE IF a.regex_pattern # None THEN "regex" ELSE "plain"

\* The calls that differ from the call made only in arguments its mode does
\* not read: with a rule table, the pattern, the style arguments and the two
\* flags, well typed or not; without a pattern and a table, the two flags.
OtherModeArguments ==
    IF ModeOf(request) = "mappings"
    THEN {[request EXCEPT !.regex_pattern = rp, !.text_color = tc,
                          !.text_case = tcase, !.color_match = cm,
                          !.ill_typed = ill] :
            rp \in {None, Some(<<"a">>)}, tc \in {None, Some(RED)},
            tcase \in {None, Some(ALL_CAPS)}, cm \in BOOLEAN,
            ill \in {request.ill_typed \cup extra :
                        extra \in {{}, {"color_match"}, {"ignore_case"}}}}
    ELSE IF ModeOf(request) = "plain"
    THEN {[request EXCEPT !.color_match = cm, !.ignore_case = ic,
                          !.ill_typed = ill] :
            cm \in BOOLEAN, ic \in BOOLEAN,
            ill \in {request.ill_typed \cup extra :
                        extra \in {{}, {"color_match"}, {"ignore_case"}}}}
    ELSE {request}

\* C25: echo hands exactly one finished string to print per call that
\* returns, and none in a call that raises.  When colorization is not
\* supported the string is the raw message in all three modes; when it is
\* supported the string is the result of the one mode chosen by what the
\* caller supplied (the rule table if given, otherwise the pattern if given,
\* otherwise plain), and the arguments of the other modes have no effect.
C25_OneStringPerCall ==
    last.op = "echo" =>
        /\ Len(last.printed) = (IF last.exc = "none" THEN 1 ELSE 0)
        /\ (last.exc = "none" /\ ~last.supported)
               => last.printed = <<request.message>>
        /\ (last.exc = "none" /\ last.supported) =>
               last.printed =
                   << CASE ModeOf(request) = "mappings" ->
                               _get_colorized_message_by_mappings(
                                   request.message, request.mappings[1]).val
                        [] ModeOf(request) = "regex" ->
                               _get_colorized_message_by_regex_pattern(
                                   request.message, request.regex_pattern[1],
                                   request.text_color,
                                   request.text_background_color,
                                   request.text_effect, request.text_case,
                                   request.color_match, request.ignore_case).val
                        [] ModeOf(request) = "plain" ->
                               _get_colorized_message(request.message,
                                   request.text_color,
                                   request.text_background_color,
                                   request.text_effect, request.text_case).val >>
        /\ \A other \in OtherModeArguments :
               echo(other, last.supported).printed = last.printed

\* The outcome r is a string printed that is not the one of the last call.
PrintsAnother(r) == r.exc = "none" /\ r.printed # last.printed

\* C25 witness: a call with a rule table, a pattern and a colour printed the
\* message as the rule table styles it, which is not how the pattern with
\* the colour styles it.
C25_Witness ==
    /\ last.op = "echo"
    /\ last.supported
    /\ last.exc = "none"
    /\ request.mappings # None
    /\ request.regex_pattern = Some(<<"a">>)
    /\ request.text_color = Some(RED)
    /\ request.ill_typed = {}
    /\ last.printed # <<request.message>>
    /\ PrintsAnother(echo([request EXCEPT !.mappings = None], TRUE))

\* C25 witness: on a terminal without colorization a call whose rule table
\* would restyle the message printed the raw message.
C25_WitnessUnsupported ==
    /\ last.op = "echo"
    /\ ~last.supported
    /\ last.exc = "none"
    /\ last.printed = <<request.message>>
    /\ PrintsAnother(echo(request, TRUE))

---------------------------------------------------------------------------
(* A rule table built from the arguments of a single-pattern call          *)
(* (specification SpecRule): the caller adds one rule whose keyword is the *)
(* pattern and evaluates the message with the table.                       *)

\* The messages given to the table.
RuleMessages == SeqUpTo({"a", "A", " "}, MaxMessage)

\* The arguments of the call: the pattern and the style.
RuleRequests ==
    [op : {"by_regex"}, message : RuleMessages, regex_pattern : Patterns,
     text_color : {None, Some(RED)}, text_background_color : {None},
     text_effect : {None, Some(BOLD)},
     text_case : {None, Some(NONE), Some(ALL_CAPS), Some(TITLE_CASE)},
     color_match : BOOLEAN, ignore_case : BOOLEAN]

InitRule ==
    /\ InitCommon
    /\ true_color_ok = TRUE
    /\ request \in RuleRequests

\* The arguments of add_mapping for a rule 'a' whose keywords are the
\* pattern of the request, given as a str, as a list of one str, or as a
\* list that holds the pattern and a value that is not a str, in either
\* order.
RuleArgs(form) ==
    [name |-> <<"a">>,
     keywords |-> [t |-> IF form = "str" THEN "str" ELSE "list",
                   v |-> CASE form = "str" -> Some(request.regex_pattern)
                           [] form = "list" -> <<request.regex_pattern>>
                           [] form = "list, not str last" ->
                                  <<request.regex_pattern, NotStr>>
                           [] form = "list, not str first" ->
                                  <<NotStr, request.regex_pattern>>],
     text_color |-> request.text_color,
     text_background_color |-> request.text_background_color,
     text_effect |-> request.text_effect, text_case |-> request.text_case,
     color_match |-> request.color_match, ignore_case |-> request.ignore_case]

\* ColorMapper.add_mapping('a', regex_pattern, ...).
AddRule ==
    \E form \in {"str", "list", "list, not str last", "list, not str first"} :
        AddMappingWith({RuleArgs(form)})

\* _get_colorized_message_by_mappings(message, mappings).
ByRule ==
    LET r == _get_colorized_message_by_mappings(request.message, mappings)
    IN  /\ last' = [op |-> "by_mappings", message |-> request.message,
                    exc |-> r.exc, val |-> r.val]
        /\ UNCHANGED <<mappings, recent, registries, request>>

NextRule ==
    \/ AddRule
    \/ ByRule

SpecRule == InitRule /\ [][NextRule]_vars

\* C26: rule-table mode with a table of exactly one rule that has exactly
\* one keyword gives, for every message, the outcome of single-pattern mode
\* called with that keyword as the pattern and the same colour, background,
\* effect, case, color_match and ignore_case: the same string, or an error
\* where single-pattern mode fails.
C26_OneRuleAsSinglePattern ==
    (last.op = "by_mappings" /\ Len(mappings) = 1
        /\ Len(mappings[1].keywords) = 1) =>
        LET single == _get_colorized_message_by_regex_pattern(request.message,
                          request.regex_pattern, request.text_color,
                          request.text_background_color, request.text_effect,
                          request.text_case, request.color_match,
                          request.ignore_case)
        IN  /\ mappings[1].keywords[1] = request.regex_pattern
            /\ last.exc = single.exc
            /\ last.val = single.val

\* C26 witness: a rule that ignores case and styles the match only restyled
\* an 'A' of a message that holds more than the match.
C26_Witness ==
    /\ last.op = "by_mappings"
    /\ Len(mappings) = 1
    /\ Len(mappings[1].keywords) = 1
    /\ request.regex_pattern = <<"a">>
    /\ request.ignore_case
    /\ request.color_match
    /\ request.text_color = Some(RED)
    /\ request.text_case = Some(NONE)
    /\ request.message = <<"A", " ">>
    /\ last.exc = "none"
    /\ last.val = RED \o <<"A">> \o RESET \o <<" ">>

\* C27: add_mapping raises TypeError and leaves the table unchanged whenever
\* keywords is a list that holds an element that is not a string, at
\* whatever position: no call with such a list was accepted, and every
\* keyword stored in the table is a string.
C27_EveryKeywordIsAString ==
    /\ \A u \in UpperNames :
          recent[u] # None =>
              (recent[u][1].keywords.t = "list" =>
                  \A k \in 1..Len(recent[u][1].keywords.v) :
                      IsStr(recent[u][1].keywords.v[k]))
    /\ \A i \in 1..Len(mappings) :
          \A k \in 1..Len(mappings[i].keywords) : IsStr(mappings[i].keywords[k])

---------------------------------------------------------------------------
(* Claims about the true-colour codes the codec reads (SpecCodec). *)

\* The ANSI string of the call is accepted by validate_ansi and its body
\* begins with '38;2;' or '48;2;'.
TrueColorGiven ==
    /\ request.op = "ansi"
    /\ validate_ansi(request.ansi).exc = "none"
    /\ IsTrueColorCode(request.ansi)

\* C28: for every ANSI string accepted by validate_ansi whose body begins
\* with '38;2;' or '48;2;', ansi_to_rgb returns three integers each in
\* 0..255 or fails, never a component outside 0..255; and ansi_to_hex
\* returns rgb_to_hex of that triple or fails.
C28_AnsiToRgbInRange ==
    /\ (last.op = "ansi_to_rgb" /\ TrueColorGiven) =>
           \/ last.exc # "none"
           \/ /\ Len(last.val) = 3
              /\ \A i \in 1..3 : last.val[i] \in 0..255
    /\ (last.op = "ansi_to_hex" /\ TrueColorGiven) =>
           \/ last.exc # "none"
           \/ LET rgb == ansi_to_rgb(request.ansi)
              IN  /\ rgb.exc = "none"
                  /\ last.val = rgb_to_hex(rgb.val[1], rgb.val[2], rgb.val[3]).val

---------------------------------------------------------------------------
(* Claims about the standard-colour codes the codec writes (SpecConvert). *)

\* The eight base swatches, as (r, g, b).
BaseSwatches ==
    <<<<0, 0, 0>>, <<128, 0, 0>>, <<0, 128, 0>>, <<128, 128, 0>>,
      <<0, 0, 128>>, <<128, 0, 128>>, <<0, 128, 128>>, <<192, 192, 192>>>>

\* The number between ESC[ and m in the code returned.
CodeNumber == DecValue(SubSeq(last.val, 3, Len(last.val) - 1))

\* The standard-colour code returned is on the layer asked for, and an input
\* equal to the base swatch of an index gives the base code of that index.
OnLayer(colour) ==
    /\ last.exc = "none"
    /\ DigitBody(last.val)
    /\ last.layer = Foreground => CodeNumber \in (30..37) \cup (90..97)
    /\ last.layer = Background => CodeNumber \in (40..47) \cup (100..107)
    /\ \A index \in 0..7 :
          colour = BaseSwatches[index + 1] =>
              CodeNumber = (IF last.layer = Foreground THEN 30 ELSE 40) + index

\* C29: with true_color=False, rgb_to_ansi and cmyk_to_ansi (and hex_to_ansi,
\* which they mirror) return the terminal code of the closest standard
\* colour on the layer asked for: for every valid input the number is in
\* 30..37 or 90..97 for Foreground and in 40..47 or 100..107 for Background,
\* and an input equal to one of the eight base swatches gives 30 + index
\* for Foreground and 40 + index for Background.
C29_StandardCodesOnLayer ==
    /\ (last.op = "rgb_to_ansi" /\ ~last.true_color /\ ValidRgb) =>
           OnLayer(<<request.r, request.g, request.b>>)
    /\ (last.op = "cmyk_to_ansi" /\ ~last.true_color /\ ValidCmyk) =>
           OnLayer(cmyk_to_rgb(request.c, request.m, request.y, request.k).val)

---------------------------------------------------------------------------
(* Claims about the form of the output of rule-table mode (Spec). *)

\* The escape sequences the rules of the table insert: their colour,
\* background and effect codes, and RESET.
InsertedCodes ==
    {RESET} \cup
    UNION {{c[1] : c \in {mappings[i].color_mapping.text_color,
                          mappings[i].color_mapping.text_background_color,
                          mappings[i].color_mapping.text_effect} \ {None}} :
              i \in 1..Len(mappings)}

\* C30: the output of rule-table mode is well formed: for a table whose
\* style codes are valid ANSI codes and a message free of escape characters,
\* every ESC of the result begins a complete valid ANSI sequence that some
\* rule inserted whole; a later rule's substitution or case transform never
\* splits or alters a sequence an earlier rule inserted.
C30_OutputWellFormed ==
    (/\ last.op = "by_mappings"
     /\ last.exc = "none"
     /\ ESC \notin Range(last.message)
     /\ \A code \in InsertedCodes : validate_ansi(code).exc = "none") =>
        \A i \in 1..Len(last.val) :
            last.val[i] = ESC =>
                \E code \in InsertedCodes :
                    StartsWith(SubSeq(last.val, i, Len(last.val)), code)
===========================================================================
